---- MODULE Spec2Model ----
(***************************************************************************)
(* Model of the data aggregation layer of reporting.py (Rail ISAC          *)
(* reporting script): the response normalizer, the series extractors and   *)
(* the time-series builders.                                               *)
(*                                                                         *)
(* Python values are tagged records.  A str is a sequence of one-character *)
(* strings, so that strptime, int(), lower(), startswith() and the `in`    *)
(* substring test are computed on the text.  A dict is a sequence of       *)
(* key/value pairs in insertion order with distinct keys.  A date is the   *)
(* number of days since 1970-01-01 (dates are only compared, stepped by    *)
(* whole days and used as keys).  A call either returns a value or raises: *)
(* its outcome is a record [raised, exc, value].  raw is the response at   *)
(* hand, counter_in the counter handed to the daily builder, dates_in the  *)
(* date list handed to the weekly builder, families_in the date lists by   *)
(* family handed to the family weekly builder, op the last function        *)
(* called, args its arguments and result its outcome.  For the functions   *)
(* that run a loop of requests or pages, remote is what the services they  *)
(* ask hold and locals the local variables of the function while it runs.  *)
(***************************************************************************)
EXTENDS Integers, Sequences, FiniteSets, TLC

VARIABLES raw, counter_in, dates_in, families_in, remote, locals, op, args, result

vars == <<raw, counter_in, dates_in, families_in, remote, locals, op, args, result>>

-----------------------------------------------------------------------------
(* Python values *)

PyNone == [t |-> "none"]
PyInt(n) == [t |-> "int", n |-> n]
PyStr(s) == [t |-> "str", chars |-> s]
PyList(xs) == [t |-> "list", items |-> xs]
PyDict(ps) == [t |-> "dict", pairs |-> ps]
KV(k, v) == [k |-> k, v |-> v]

IsDict(x) == x.t = "dict"
IsList(x) == x.t = "list"
IsStr(x) == x.t = "str"

\* bool(x)
Truthy(x) ==
  CASE x.t = "none" -> FALSE
    [] x.t = "int" -> x.n # 0
    [] x.t = "str" -> Len(x.chars) > 0
    [] x.t = "list" -> Len(x.items) > 0
    [] x.t = "dict" -> Len(x.pairs) > 0

\* key in d
HasKey(d, k) == \E i \in 1..Len(d.pairs) : d.pairs[i].k = k

\* d[k], for a key that is present
DictAt(d, k) == d.pairs[CHOOSE i \in 1..Len(d.pairs) : d.pairs[i].k = k].v

\* d.get(k, default) on a dict d
DictGet(d, k, default) == IF HasKey(d, k) THEN DictAt(d, k) ELSE default

\* list(d.values())
DictValues(d) == [i \in 1..Len(d.pairs) |-> d.pairs[i].v]

\* Outcome of a call
Ok(v) == [raised |-> FALSE, exc |-> "", value |-> v]
Raise(e) == [raised |-> TRUE, exc |-> e, value |-> <<>>]

\* The items a `for` loop over x visits: a list's elements, a dict's keys, a
\* str's characters; any other value is not iterable.
Iterate(x) ==
  CASE x.t = "list" -> Ok(x.items)
    [] x.t = "dict" -> Ok([i \in 1..Len(x.pairs) |-> [t |-> "key", k |-> x.pairs[i].k]])
    [] x.t = "str" -> Ok([i \in 1..Len(x.chars) |-> PyStr(<<x.chars[i]>>)])
    [] OTHER -> Raise("TypeError")

-----------------------------------------------------------------------------
(* Response normalizer *)

\* _extract_items_from_response with the endpoint test on "Event" dropped
ExtractItemsAnyKey(endpoint, data) ==
  IF ~IsDict(data) THEN Raise("AttributeError")
  ELSE LET response == DictGet(data, "response", data) IN
    IF IsDict(response) THEN
      IF HasKey(response, "Event") THEN Ok(DictAt(response, "Event"))
      ELSE IF endpoint = "attributes" /\ HasKey(response, "Attribute")
        THEN Ok(DictAt(response, "Attribute"))
      ELSE Ok(PyList(DictValues(response)))
    ELSE IF IsList(response) THEN Ok(response)
    ELSE Ok(PyList(<<>>))

\* _extract_items_from_response(endpoint, data)
ExtractItemsFromResponse(endpoint, data) ==
  IF ~IsDict(data) THEN Raise("AttributeError")
  ELSE LET response == DictGet(data, "response", data) IN
    IF IsDict(response) THEN
      IF endpoint = "events" /\ HasKey(response, "Event")
        THEN Ok(DictAt(response, "Event"))
      ELSE IF endpoint = "attributes" /\ HasKey(response, "Attribute")
        THEN Ok(DictAt(response, "Attribute"))
      ELSE Ok(PyList(DictValues(response)))
    ELSE IF IsList(response) THEN Ok(response)
    ELSE Ok(PyList(<<>>))

-----------------------------------------------------------------------------
(* Text: str methods, int() and strptime, computed on the characters *)

DigitChars == <<"0", "1", "2", "3", "4", "5", "6", "7", "8", "9">>
UpperChars == <<"A", "B", "C", "D", "E", "F", "G", "H", "I", "J", "K", "L", "M",
                "N", "O", "P", "Q", "R", "S", "T", "U", "V", "W", "X", "Y", "Z">>
LowerChars == <<"a", "b", "c", "d", "e", "f", "g", "h", "i", "j", "k", "l", "m",
                "n", "o", "p", "q", "r", "s", "t", "u", "v", "w", "x", "y", "z">>

\* The digit characters and what each denotes
DigitOf == [c \in {DigitChars[i] : i \in 1..10} |-> (CHOOSE i \in 1..10 : DigitChars[i] = c) - 1]

IsDigit(c) == c \in DOMAIN DigitOf
DigitVal(c) == DigitOf[c]
AllDigits(s) == \A i \in 1..Len(s) : IsDigit(s[i])

\* The number a non-empty digit string denotes
RECURSIVE DigitsVal(_)
DigitsVal(s) ==
  IF Len(s) = 0 THEN 0
  ELSE 10 * DigitsVal(SubSeq(s, 1, Len(s) - 1)) + DigitVal(s[Len(s)])

\* The upper-case letters and the lower-case letter of each
LowerOf ==
  [c \in {UpperChars[i] : i \in 1..26} |-> LowerChars[CHOOSE i \in 1..26 : UpperChars[i] = c]]

\* c.lower()
LowerChar(c) == IF c \in DOMAIN LowerOf THEN LowerOf[c] ELSE c

\* s.lower()
Lower(s) == [i \in 1..Len(s) |-> LowerChar(s[i])]

\* s.startswith(p)
StartsWith(s, p) == Len(p) <= Len(s) /\ SubSeq(s, 1, Len(p)) = p

\* p in s (substring)
Contains(s, p) ==
  \E i \in 0..(Len(s) - Len(p)) : SubSeq(s, i + 1, i + Len(p)) = p

\* s.strip() for the blank character
RECURSIVE Strip(_)
Strip(s) ==
  IF Len(s) > 0 /\ s[1] = " " THEN Strip(Tail(s))
  ELSE IF Len(s) > 0 /\ s[Len(s)] = " " THEN Strip(SubSeq(s, 1, Len(s) - 1))
  ELSE s

\* int(x): an int is itself; a str is stripped and read as an optionally
\* signed decimal number (ValueError otherwise); anything else, None
\* included, is a TypeError.  (Digit-group underscores are not modelled.)
PyIntOf(x) ==
  CASE x.t = "int" -> Ok(x.n)
    [] x.t = "str" ->
         LET s == Strip(x.chars)
             signed == Len(s) > 0 /\ s[1] \in {"+", "-"}
             body == IF signed THEN Tail(s) ELSE s
         IN IF Len(body) > 0 /\ AllDigits(body)
              THEN Ok(IF signed /\ s[1] = "-" THEN 0 - DigitsVal(body) ELSE DigitsVal(body))
              ELSE Raise("ValueError")
    [] OTHER -> Raise("TypeError")

\* s.split(sep) as a sequence of parts
RECURSIVE SplitOn(_, _)
SplitOn(s, sep) ==
  IF \E i \in 1..Len(s) : s[i] = sep
    THEN LET i == CHOOSE i \in 1..Len(s) : s[i] = sep /\ \A j \in 1..(i - 1) : s[j] # sep
         IN <<SubSeq(s, 1, i - 1)>> \o SplitOn(SubSeq(s, i + 1, Len(s)), sep)
    ELSE <<s>>

IsLeap(y) == (y % 4 = 0 /\ y % 100 # 0) \/ y % 400 = 0

DaysInMonth(y, m) ==
  IF m = 2 THEN (IF IsLeap(y) THEN 29 ELSE 28)
  ELSE IF m \in {4, 6, 9, 11} THEN 30 ELSE 31

\* date(y, m, d) as days since 1970-01-01 (the proleptic Gregorian calendar
\* date.toordinal() counts in, shifted to the epoch)
DaysFromCivil(y, m, d) ==
  LET yy == IF m <= 2 THEN y - 1 ELSE y
      era == yy \div 400
      yoe == yy - era * 400
      mp == IF m > 2 THEN m - 3 ELSE m + 9
      doy == (153 * mp + 2) \div 5 + d - 1
      doe == yoe * 365 + yoe \div 4 - yoe \div 100 + doy
  IN era * 146097 + doe - 719468

\* %m of strptime: 1[0-2]|0[1-9]|[1-9]
MonthField(s) ==
  Len(s) \in {1, 2} /\ AllDigits(s) /\ DigitsVal(s) \in 1..12

\* %d of strptime: 3[01]|[12]\d|0[1-9]|[1-9]| [1-9]
DayField(s) ==
  \/ Len(s) \in {1, 2} /\ AllDigits(s) /\ DigitsVal(s) \in 1..31
  \/ Len(s) = 2 /\ s[1] = " " /\ IsDigit(s[2]) /\ DigitVal(s[2]) # 0

DayFieldVal(s) == IF s[1] = " " THEN DigitVal(s[2]) ELSE DigitsVal(s)

\* datetime.strptime(x, "%Y-%m-%d").date(): a value that is not a str is a
\* TypeError; text that does not match the format or names no calendar day
\* is a ValueError.
Strptime(x) ==
  IF ~IsStr(x) THEN Raise("TypeError")
  ELSE LET parts == SplitOn(x.chars, "-") IN
    IF /\ Len(parts) = 3
       /\ Len(parts[1]) = 4 /\ AllDigits(parts[1])
       /\ MonthField(parts[2])
       /\ DayField(parts[3])
    THEN LET y == DigitsVal(parts[1])
             m == DigitsVal(parts[2])
             d == DayFieldVal(parts[3])
         IN IF y >= 1 /\ d <= DaysInMonth(y, m)
              THEN Ok(DaysFromCivil(y, m, d))
              ELSE Raise("ValueError")
    ELSE Raise("ValueError")

\* datetime.fromtimestamp(ts, tz=timezone.utc).date().  The timestamps of
\* the model lie within years 1..9999, where the call does not raise.
UtcDate(ts) == ts \div 86400

-----------------------------------------------------------------------------
(* Series extractors *)

\* What one pass of an extractor's loop body does with a record
StepRaise(e) == [k |-> "raise", exc |-> e, day |-> 0, matched |-> {}]
StepSkip == [k |-> "skip", exc |-> "", day |-> 0, matched |-> {}]
StepDay(day) == [k |-> "day", exc |-> "", day |-> day, matched |-> {}]

\* if start_date <= day <= end_date: collect day
InRange(day, start_date, end_date) ==
  IF start_date <= day /\ day <= end_date THEN StepDay(day) ELSE StepSkip

\* x.get(k, default): only a dict has get
GetOn(x, k, default) ==
  IF IsDict(x) THEN Ok(DictGet(x, k, default)) ELSE Raise("AttributeError")

\* The head every extractor starts with: unwrap "response", then take the
\* collection under `key`, or a list as it is.  value.found is FALSE where
\* the extractor returns its empty result at once.
ResponseList(json, key) ==
  IF ~IsDict(json) THEN Raise("AttributeError")
  ELSE LET response == DictGet(json, "response", json) IN
    IF IsDict(response) /\ HasKey(response, key)
      THEN Ok([found |-> TRUE, list |-> DictAt(response, key)])
    ELSE IF IsList(response) THEN Ok([found |-> TRUE, list |-> response])
    ELSE Ok([found |-> FALSE, list |-> PyNone])

\* counter[day] += 1
CounterAdd(counter, day) ==
  IF day \in DOMAIN counter
    THEN [counter EXCEPT ![day] = @ + 1]
    ELSE counter @@ (day :> 1)

\* The loop of a counting extractor over the outcomes of its body
RECURSIVE CountLoop(_, _, _)
CountLoop(steps, i, counter) ==
  IF i > Len(steps) THEN Ok(counter)
  ELSE IF steps[i].k = "raise" THEN Raise(steps[i].exc)
  ELSE IF steps[i].k = "skip" THEN CountLoop(steps, i + 1, counter)
  ELSE CountLoop(steps, i + 1, CounterAdd(counter, steps[i].day))

\* The loop of a date-collecting extractor over the outcomes of its body
RECURSIVE CollectLoop(_, _, _)
CollectLoop(steps, i, dates) ==
  IF i > Len(steps) THEN Ok(dates)
  ELSE IF steps[i].k = "raise" THEN Raise(steps[i].exc)
  ELSE IF steps[i].k = "skip" THEN CollectLoop(steps, i + 1, dates)
  ELSE CollectLoop(steps, i + 1, Append(dates, steps[i].day))

\* extract_events_by_day, the date of an event: a truthy "date" is parsed and
\* a ValueError drops the event; only a falsy "date" reads "timestamp".
ResolveEventsByDay(event, start_date, end_date) ==
  LET date_str == DictGet(event, "date", PyNone) IN
  IF Truthy(date_str)
    THEN LET parsed == Strptime(date_str) IN
      IF parsed.raised
        THEN (IF parsed.exc = "ValueError" THEN StepSkip ELSE StepRaise(parsed.exc))
        ELSE InRange(parsed.value, start_date, end_date)
    ELSE LET ts == PyIntOf(DictGet(event, "timestamp", PyNone)) IN
      IF ts.raised THEN StepSkip
      ELSE InRange(UtcDate(ts.value), start_date, end_date)

\* extract_events_by_day, the loop body
EventsByDayStep(e, start_date, end_date) ==
  LET event == GetOn(e, "Event", e) IN
  IF event.raised THEN StepRaise(event.exc)
  ELSE IF ~IsDict(event.value) THEN StepRaise("AttributeError")
  ELSE ResolveEventsByDay(event.value, start_date, end_date)

\* extract_events_by_day(events_json, start_date, end_date)
ExtractEventsByDay(events_json, start_date, end_date) ==
  LET head == ResponseList(events_json, "Event") IN
  IF head.raised THEN head
  ELSE IF ~head.value.found THEN Ok(<<>>)
  ELSE LET it == Iterate(head.value.list) IN
    IF it.raised THEN it
    ELSE CountLoop([i \in 1..Len(it.value) |->
                      EventsByDayStep(it.value[i], start_date, end_date)], 1, <<>>)

\* The date of an attribute taken from "date" first, as for an event
ResolveTimestampDateFirst(attr, start_date, end_date) ==
  LET date_str == DictGet(attr, "date", PyNone)
      parsed == Strptime(date_str)
      ts == PyIntOf(DictGet(attr, "timestamp", PyNone))
  IN IF Truthy(date_str) /\ ~parsed.raised
       THEN InRange(parsed.value, start_date, end_date)
     ELSE IF ts.raised THEN StepSkip
     ELSE InRange(UtcDate(ts.value), start_date, end_date)

\* The date of an attribute: its "timestamp" alone; any failure drops it.
ResolveTimestamp(attr, start_date, end_date) ==
  LET ts == PyIntOf(DictGet(attr, "timestamp", PyNone)) IN
  IF ts.raised THEN StepSkip
  ELSE InRange(UtcDate(ts.value), start_date, end_date)

\* extract_attributes_by_day, the loop body
AttributesByDayStep(a, start_date, end_date) ==
  LET attr == GetOn(a, "Attribute", a) IN
  IF attr.raised THEN StepRaise(attr.exc)
  ELSE IF ~IsDict(attr.value) THEN StepSkip
  ELSE ResolveTimestamp(attr.value, start_date, end_date)

\* extract_attributes_by_day(attrs_json, start_date, end_date)
ExtractAttributesByDay(attrs_json, start_date, end_date) ==
  LET head == ResponseList(attrs_json, "Attribute") IN
  IF head.raised THEN head
  ELSE IF ~head.value.found THEN Ok(<<>>)
  ELSE LET it == Iterate(head.value.list) IN
    IF it.raised THEN it
    ELSE CountLoop([i \in 1..Len(it.value) |->
                      AttributesByDayStep(it.value[i], start_date, end_date)], 1, <<>>)

\* The first exception among a sequence of outcomes, if any
FirstRaised(outs) ==
  LET i == CHOOSE i \in 1..Len(outs) : outs[i].raised /\ \A j \in 1..(i - 1) : ~outs[j].raised
  IN outs[i]

AnyRaised(outs) == \E i \in 1..Len(outs) : outs[i].raised

\* (record.get("info") or "").lower()
InfoLower(event) ==
  LET info == DictGet(event, "info", PyNone) IN
  IF ~Truthy(info) THEN Ok(<<>>)
  ELSE IF IsStr(info) THEN Ok(Lower(info.chars))
  ELSE Raise("AttributeError")

\* The two-step date with "timestamp" tried first
ResolveDateTimestampFirst(record, start_date, end_date) ==
  LET date_str == DictGet(record, "date", PyNone)
      parsed == Strptime(date_str)
      ts == PyIntOf(DictGet(record, "timestamp", PyNone))
  IN IF ~ts.raised THEN InRange(UtcDate(ts.value), start_date, end_date)
     ELSE IF Truthy(date_str) /\ ~parsed.raised
       THEN InRange(parsed.value, start_date, end_date)
     ELSE StepSkip

\* The two-step date with an unparseable "date" dropping the record
ResolveDateNoFallThrough(record, start_date, end_date) ==
  LET date_str == DictGet(record, "date", PyNone) IN
  IF Truthy(date_str)
    THEN LET parsed == Strptime(date_str) IN
      IF parsed.raised
        THEN (IF parsed.exc = "ValueError" THEN StepSkip ELSE StepRaise(parsed.exc))
        ELSE InRange(parsed.value, start_date, end_date)
    ELSE LET ts == PyIntOf(DictGet(record, "timestamp", PyNone)) IN
      IF ts.raised THEN StepSkip
      ELSE InRange(UtcDate(ts.value), start_date, end_date)

\* The two-step date of extract_object_dates, extract_event_dates_with_prefix
\* and extract_tagged_event_dates_by_family: a truthy "date" is parsed, a
\* ValueError leaves day = None, and day = None reads "timestamp"; a failure
\* there drops the record.
ResolveDate(record, start_date, end_date) ==
  LET date_str == DictGet(record, "date", PyNone)
      parsed == IF Truthy(date_str) THEN Strptime(date_str) ELSE Raise("ValueError")
  IN IF parsed.raised /\ parsed.exc # "ValueError" THEN StepRaise(parsed.exc)
     ELSE IF ~parsed.raised THEN InRange(parsed.value, start_date, end_date)
     ELSE LET ts == PyIntOf(DictGet(record, "timestamp", PyNone)) IN
       IF ts.raised THEN StepSkip
       ELSE InRange(UtcDate(ts.value), start_date, end_date)

\* eventinfo_prefix.lower() if eventinfo_prefix else None
PrefixLower(eventinfo_prefix) ==
  IF Truthy(eventinfo_prefix) THEN PyStr(Lower(eventinfo_prefix.chars)) ELSE PyNone

\* extract_object_dates, the inner loop body for one nested object
ObjectStep(o, start_date, end_date) ==
  LET obj == GetOn(o, "Object", o) IN
  IF obj.raised THEN StepRaise(obj.exc)
  ELSE IF ~IsDict(obj.value) THEN StepRaise("AttributeError")
  ELSE ResolveDate(obj.value, start_date, end_date)

\* extract_object_dates with the parent event's own date as a gate: the
\* objects of an event whose date is not within the range are passed over
ObjectDatesOfEventInRange(e, start_date, end_date, prefix_lower) ==
  LET event == GetOn(e, "Event", e) IN
  IF event.raised THEN event
  ELSE IF ~IsDict(event.value) THEN Raise("AttributeError")
  ELSE LET info == InfoLower(event.value) IN
    IF prefix_lower # PyNone /\ info.raised THEN info
    ELSE IF prefix_lower # PyNone /\ ~StartsWith(info.value, prefix_lower.chars) THEN Ok(<<>>)
    ELSE IF ResolveDate(event.value, start_date, end_date).k # "day" THEN Ok(<<>>)
    ELSE LET got == DictGet(event.value, "Object", PyList(<<>>))
             objects == IF Truthy(got) THEN got ELSE PyList(<<>>)
             it == Iterate(objects)
         IN IF it.raised THEN it
            ELSE CollectLoop([i \in 1..Len(it.value) |->
                                ObjectStep(it.value[i], start_date, end_date)], 1, <<>>)

\* extract_object_dates, the outer loop body: the dates one event appends
ObjectDatesOfEvent(e, start_date, end_date, prefix_lower) ==
  LET event == GetOn(e, "Event", e) IN
  IF event.raised THEN event
  ELSE IF ~IsDict(event.value) THEN Raise("AttributeError")
  ELSE LET info == InfoLower(event.value) IN
    IF prefix_lower # PyNone /\ info.raised THEN info
    ELSE IF prefix_lower # PyNone /\ ~StartsWith(info.value, prefix_lower.chars) THEN Ok(<<>>)
    ELSE LET got == DictGet(event.value, "Object", PyList(<<>>))
             objects == IF Truthy(got) THEN got ELSE PyList(<<>>)
             it == Iterate(objects)
         IN IF it.raised THEN it
            ELSE CollectLoop([i \in 1..Len(it.value) |->
                                ObjectStep(it.value[i], start_date, end_date)], 1, <<>>)

\* The outer loop of extract_object_dates: dates.append over the events in turn
RECURSIVE ExtendLoop(_, _, _)
ExtendLoop(outs, i, dates) ==
  IF i > Len(outs) THEN Ok(dates)
  ELSE IF outs[i].raised THEN outs[i]
  ELSE ExtendLoop(outs, i + 1, dates \o outs[i].value)

\* extract_object_dates(events_json, start_date, end_date, eventinfo_prefix)
ExtractObjectDates(events_json, start_date, end_date, eventinfo_prefix) ==
  LET head == ResponseList(events_json, "Event") IN
  IF head.raised THEN head
  ELSE IF ~head.value.found THEN Ok(<<>>)
  ELSE LET prefix_lower == PrefixLower(eventinfo_prefix)
           it == Iterate(head.value.list)
       IN IF it.raised THEN it
          ELSE ExtendLoop([i \in 1..Len(it.value) |->
                 ObjectDatesOfEvent(it.value[i], start_date, end_date, prefix_lower)], 1, <<>>)

\* extract_event_dates_with_prefix, the loop body
EventWithPrefixStep(e, start_date, end_date, prefix_lower) ==
  LET event == GetOn(e, "Event", e) IN
  IF event.raised THEN StepRaise(event.exc)
  ELSE IF ~IsDict(event.value) THEN StepRaise("AttributeError")
  ELSE LET info == InfoLower(event.value) IN
    IF info.raised THEN StepRaise(info.exc)
    ELSE IF ~StartsWith(info.value, prefix_lower) THEN StepSkip
    ELSE ResolveDate(event.value, start_date, end_date)

\* extract_event_dates_with_prefix(events_json, start_date, end_date, eventinfo_prefix)
ExtractEventDatesWithPrefix(events_json, start_date, end_date, eventinfo_prefix) ==
  LET head == ResponseList(events_json, "Event") IN
  IF head.raised THEN head
  ELSE IF ~head.value.found THEN Ok(<<>>)
  ELSE IF ~IsStr(eventinfo_prefix) THEN Raise("AttributeError")
  ELSE LET prefix_lower == Lower(eventinfo_prefix.chars)
           it == Iterate(head.value.list)
       IN IF it.raised THEN it
          ELSE CollectLoop([i \in 1..Len(it.value) |->
                 EventWithPrefixStep(it.value[i], start_date, end_date, prefix_lower)], 1, <<>>)

\* DOMAIN_TYPES of extract_domain_attributes_by_day
DOMAIN_TYPES ==
  {<<"d", "o", "m", "a", "i", "n">>, <<"d", "o", "m", "a", "i", "n", "|", "i", "p">>}

\* extract_domain_attributes_by_day, the loop body.  The membership test
\* hashes the type: a list or a dict there is a TypeError.
DomainAttributeStep(a, start_date, end_date) ==
  LET attr == GetOn(a, "Attribute", a) IN
  IF attr.raised THEN StepRaise(attr.exc)
  ELSE IF ~IsDict(attr.value) THEN StepRaise("AttributeError")
  ELSE LET type == DictGet(attr.value, "type", PyNone) IN
    IF type.t \in {"list", "dict"} THEN StepRaise("TypeError")
    ELSE IF ~(IsStr(type) /\ type.chars \in DOMAIN_TYPES) THEN StepSkip
    ELSE ResolveTimestamp(attr.value, start_date, end_date)

\* extract_domain_attributes_by_day(attrs_json, start_date, end_date)
ExtractDomainAttributesByDay(attrs_json, start_date, end_date) ==
  LET head == ResponseList(attrs_json, "Attribute") IN
  IF head.raised THEN head
  ELSE IF ~head.value.found THEN Ok(<<>>)
  ELSE LET it == Iterate(head.value.list) IN
    IF it.raised THEN it
    ELSE CountLoop([i \in 1..Len(it.value) |->
                      DomainAttributeStep(it.value[i], start_date, end_date)], 1, <<>>)

\* extract_url_attribute_dates_from_event, the inner loop body
UrlAttributeStep(a, start_date, end_date) ==
  LET attr == GetOn(a, "Attribute", a) IN
  IF attr.raised THEN StepRaise(attr.exc)
  ELSE IF ~IsDict(attr.value) THEN StepRaise("AttributeError")
  ELSE IF DictGet(attr.value, "type", PyNone) # PyStr(<<"u", "r", "l">>) THEN StepSkip
  ELSE ResolveTimestamp(attr.value, start_date, end_date)

\* extract_url_attribute_dates_from_event, the outer loop body
UrlDatesOfEvent(e, start_date, end_date) ==
  LET event == GetOn(e, "Event", e) IN
  IF event.raised THEN event
  ELSE IF ~IsDict(event.value) THEN Raise("AttributeError")
  ELSE LET got == DictGet(event.value, "Attribute", PyList(<<>>))
           attrs == IF Truthy(got) THEN got ELSE PyList(<<>>)
           it == Iterate(attrs)
       IN IF it.raised THEN it
          ELSE CollectLoop([i \in 1..Len(it.value) |->
                              UrlAttributeStep(it.value[i], start_date, end_date)], 1, <<>>)

\* extract_url_attribute_dates_from_event(events_json, start_date, end_date)
ExtractUrlAttributeDatesFromEvent(events_json, start_date, end_date) ==
  LET head == ResponseList(events_json, "Event") IN
  IF head.raised THEN head
  ELSE IF ~head.value.found THEN Ok(<<>>)
  ELSE LET it == Iterate(head.value.list) IN
    IF it.raised THEN it
    ELSE ExtendLoop([i \in 1..Len(it.value) |->
                       UrlDatesOfEvent(it.value[i], start_date, end_date)], 1, <<>>)

STEALER_FAMILY_KEYWORDS ==
  <<<<"F", "o", "r", "m", "b", "o", "o", "k">>,
    <<"S", "n", "a", "k", "e", "K", "e", "y", "l", "o", "g", "g", "e", "r">>,
    <<"A", "g", "e", "n", "t", "T", "e", "s", "l", "a">>,
    <<"R", "e", "m", "c", "o", "s", "R", "A", "T">>,
    <<"P", "u", "r", "e", "L", "o", "g", "S", "t", "e", "a", "l", "e", "r">>,
    <<"M", "a", "s", "s", "L", "o", "g", "g", "e", "r", "R", "A", "T">>,
    <<"V", "I", "P", "K", "e", "y", "l", "o", "g", "g", "e", "r">>>>

\* The elements of a sequence
Range(seq) == {seq[i] : i \in 1..Len(seq)}

\* extract_tagged_event_dates_by_family: (tag.get("name") or "").lower() of one tag
TagNameLower(t) ==
  LET tag == GetOn(t, "Tag", t) IN
  IF tag.raised THEN tag
  ELSE IF ~IsDict(tag.value) THEN Raise("AttributeError")
  ELSE LET name == DictGet(tag.value, "name", PyNone) IN
    IF ~Truthy(name) THEN Ok(<<>>)
    ELSE IF IsStr(name) THEN Ok(Lower(name.chars))
    ELSE Raise("AttributeError")

\* extract_tagged_event_dates_by_family, the loop body: the families whose
\* lower-cased keyword is a substring of a tag name, then the event's date
TaggedEventStep(e, start_date, end_date, family_map) ==
  LET event == GetOn(e, "Event", e) IN
  IF event.raised THEN StepRaise(event.exc)
  ELSE IF ~IsDict(event.value) THEN StepRaise("AttributeError")
  ELSE LET got == DictGet(event.value, "Tag", PyList(<<>>))
           tags == IF Truthy(got) THEN got ELSE PyList(<<>>)
           it == Iterate(tags)
       IN IF it.raised THEN StepRaise(it.exc)
          ELSE LET names == [i \in 1..Len(it.value) |-> TagNameLower(it.value[i])] IN
            IF AnyRaised(names) THEN StepRaise(FirstRaised(names).exc)
            ELSE LET matched == {family \in DOMAIN family_map :
                                   \E i \in 1..Len(names) :
                                     Contains(names[i].value, family_map[family])}
                     day == ResolveDate(event.value, start_date, end_date)
                 IN IF matched = {} THEN StepSkip
                    ELSE IF day.k = "day" THEN [day EXCEPT !.matched = matched]
                    ELSE day

\* The loop of extract_tagged_event_dates_by_family with the aggregated
\* append made once per matched family
RECURSIVE TaggedLoopAggregatesPerFamily(_, _, _, _)
TaggedLoopAggregatesPerFamily(steps, i, dates_by_family, aggregated_dates) ==
  IF i > Len(steps)
    THEN Ok([dates_by_family |-> dates_by_family, aggregated_dates |-> aggregated_dates])
  ELSE IF steps[i].k = "raise" THEN Raise(steps[i].exc)
  ELSE IF steps[i].k = "skip"
    THEN TaggedLoopAggregatesPerFamily(steps, i + 1, dates_by_family, aggregated_dates)
  ELSE TaggedLoopAggregatesPerFamily(steps, i + 1,
         [family \in DOMAIN dates_by_family |->
            IF family \in steps[i].matched
              THEN Append(dates_by_family[family], steps[i].day)
              ELSE dates_by_family[family]],
         aggregated_dates \o [k \in 1..Cardinality(steps[i].matched) |-> steps[i].day])

\* The loop of extract_tagged_event_dates_by_family over the outcomes of its body
RECURSIVE TaggedLoop(_, _, _, _)
TaggedLoop(steps, i, dates_by_family, aggregated_dates) ==
  IF i > Len(steps)
    THEN Ok([dates_by_family |-> dates_by_family, aggregated_dates |-> aggregated_dates])
  ELSE IF steps[i].k = "raise" THEN Raise(steps[i].exc)
  ELSE IF steps[i].k = "skip" THEN TaggedLoop(steps, i + 1, dates_by_family, aggregated_dates)
  ELSE TaggedLoop(steps, i + 1,
         [family \in DOMAIN dates_by_family |->
            IF family \in steps[i].matched
              THEN Append(dates_by_family[family], steps[i].day)
              ELSE dates_by_family[family]],
         Append(aggregated_dates, steps[i].day))

\* extract_tagged_event_dates_by_family(events_json, start_date, end_date, family_keywords)
ExtractTaggedEventDatesByFamily(events_json, start_date, end_date, family_keywords) ==
  LET empty == [family \in Range(family_keywords) |-> <<>>]
      head == ResponseList(events_json, "Event")
  IN IF head.raised THEN head
     ELSE IF ~head.value.found
       THEN Ok([dates_by_family |-> empty, aggregated_dates |-> <<>>])
     ELSE LET family_map == [family \in Range(family_keywords) |-> Lower(family)]
              it == Iterate(head.value.list)
          IN IF it.raised THEN it
             ELSE TaggedLoop([i \in 1..Len(it.value) |->
                    TaggedEventStep(it.value[i], start_date, end_date, family_map)],
                    1, empty, <<>>)

-----------------------------------------------------------------------------
(* Time-series builders *)

\* build_time_series with the loop stopping one day early (cur < end_date)
RECURSIVE BuildLoopExclusive(_, _, _, _, _)
BuildLoopExclusive(counter, cur, end_date, dates, counts) ==
  IF ~(cur < end_date) THEN [dates |-> dates, counts |-> counts]
  ELSE BuildLoopExclusive(counter, cur + 1, end_date, Append(dates, cur),
         Append(counts, IF cur \in DOMAIN counter THEN counter[cur] ELSE 0))

\* build_time_series reading the count of the day before cur
RECURSIVE BuildLoopPreviousDay(_, _, _, _, _)
BuildLoopPreviousDay(counter, cur, end_date, dates, counts) ==
  IF ~(cur <= end_date) THEN [dates |-> dates, counts |-> counts]
  ELSE BuildLoopPreviousDay(counter, cur + 1, end_date, Append(dates, cur),
         Append(counts, IF (cur - 1) \in DOMAIN counter THEN counter[cur - 1] ELSE 0))

\* build_time_series, the while loop: cur runs from start_date by one day
\* while cur <= end_date
RECURSIVE BuildLoop(_, _, _, _, _)
BuildLoop(counter, cur, end_date, dates, counts) ==
  IF ~(cur <= end_date) THEN [dates |-> dates, counts |-> counts]
  ELSE BuildLoop(counter, cur + 1, end_date, Append(dates, cur),
         Append(counts, IF cur \in DOMAIN counter THEN counter[cur] ELSE 0))

\* The counter after a read that inserts the key it misses (what indexing a
\* defaultdict, or setdefault, would do)
CounterAfterGetInserting(counter, cur) ==
  IF cur \in DOMAIN counter THEN counter ELSE counter @@ (cur :> 0)

\* The counter after counter.get(cur, 0): get reads and inserts nothing
CounterAfterGet(counter, cur) == counter

\* The counter handed to build_time_series after the reads of its loop
RECURSIVE CounterAfterBuild(_, _, _)
CounterAfterBuild(counter, cur, end_date) ==
  IF ~(cur <= end_date) THEN counter
  ELSE CounterAfterBuild(CounterAfterGet(counter, cur), cur + 1, end_date)

\* build_time_series(counter, start_date, end_date)
BuildTimeSeries(counter, start_date, end_date) ==
  BuildLoop(counter, start_date, end_date, <<>>, <<>>)

\* counts[idx] += 1 (idx counted from 0)
BinAdd(counts, idx) == [counts EXCEPT ![idx + 1] = @ + 1]

\* The binning loop with the bin test idx < weeks - 1: a date of the last
\* bin is dropped
RECURSIVE WeeklyLoopDropsLastBin(_, _, _, _, _, _)
WeeklyLoopDropsLastBin(dates_list, i, start_date, end_date, weeks, counts) ==
  IF i > Len(dates_list) THEN counts
  ELSE LET d == dates_list[i]
           idx == (d - start_date) \div 7
       IN WeeklyLoopDropsLastBin(dates_list, i + 1, start_date, end_date, weeks,
            IF start_date <= d /\ d <= end_date /\ 0 <= idx /\ idx < weeks - 1
              THEN BinAdd(counts, idx) ELSE counts)

\* The binning loop of the weekly builders over the dates of one list:
\* a date within the range goes to bin (d - start_date).days // 7, where
\* that is one of the bins
RECURSIVE WeeklyLoop(_, _, _, _, _, _)
WeeklyLoop(dates_list, i, start_date, end_date, weeks, counts) ==
  IF i > Len(dates_list) THEN counts
  ELSE LET d == dates_list[i]
           idx == (d - start_date) \div 7
       IN WeeklyLoop(dates_list, i + 1, start_date, end_date, weeks,
            IF start_date <= d /\ d <= end_date /\ 0 <= idx /\ idx < weeks
              THEN BinAdd(counts, idx) ELSE counts)

\* [start_date + timedelta(days=7 * i) for i in range(weeks)]: empty for weeks <= 0
WeekStarts(start_date, weeks) == [i \in 1..weeks |-> start_date + 7 * (i - 1)]

\* [0] * weeks: empty for weeks <= 0
Zeros(weeks) == [i \in 1..weeks |-> 0]

\* build_weekly_time_series with the window starting a day early
\* (end_date - weeks * 7)
BuildWeeklyStartsEarly(dates_list, weeks, end_date) ==
  IF weeks <= 0 THEN [week_starts |-> <<>>, counts |-> <<>>]
  ELSE LET start_date == end_date - (weeks * 7)
       IN [week_starts |-> WeekStarts(start_date, weeks),
           counts |-> WeeklyLoop(dates_list, 1, start_date, end_date, weeks,
                                 Zeros(weeks))]

\* build_weekly_time_series(dates_list, weeks, end_date)
BuildWeeklyTimeSeries(dates_list, weeks, end_date) ==
  IF weeks <= 0 THEN [week_starts |-> <<>>, counts |-> <<>>]
  ELSE LET start_date == end_date - (weeks * 7 - 1)
       IN [week_starts |-> WeekStarts(start_date, weeks),
           counts |-> WeeklyLoop(dates_list, 1, start_date, end_date, weeks,
                                 Zeros(weeks))]

\* any(counts)
AnyCount(counts) == \E i \in 1..Len(counts) : counts[i] # 0

\* The bins of one family in build_family_weekly_time_series
FamilyCounts(dlist, start_date, end_date, weeks) ==
  WeeklyLoop(dlist, 1, start_date, end_date, weeks, Zeros(weeks))

\* build_family_weekly_time_series without the any(counts) test: a family
\* with dates is kept although all its bins are zero
BuildFamilyWeeklyKeepsAllZero(dates_by_family, start_date, end_date) ==
  LET days_range == (end_date - start_date) + 1
      weeks == (days_range + 6) \div 7
      kept == {family \in DOMAIN dates_by_family : dates_by_family[family] # <<>>}
  IN [week_starts |-> WeekStarts(start_date, weeks),
      series |-> [family \in kept |->
                    FamilyCounts(dates_by_family[family], start_date, end_date, weeks)]]

\* build_family_weekly_time_series(dates_by_family, start_date, end_date).
\* dates_by_family and the returned series are mappings from family to list
\* (the order of a dict's items does not enter the returned mapping).
BuildFamilyWeeklyTimeSeries(dates_by_family, start_date, end_date) ==
  LET days_range == (end_date - start_date) + 1
      weeks == (days_range + 6) \div 7
      kept == {family \in DOMAIN dates_by_family :
                 /\ dates_by_family[family] # <<>>
                 /\ AnyCount(FamilyCounts(dates_by_family[family], start_date, end_date, weeks))}
  IN [week_starts |-> WeekStarts(start_date, weeks),
      series |-> [family \in kept |->
                    FamilyCounts(dates_by_family[family], start_date, end_date, weeks)]]

\* sum(counts)
RECURSIVE SumList(_)
SumList(counts) == IF counts = <<>> THEN 0 ELSE Head(counts) + SumList(Tail(counts))

\* main, the daily events series: the events counted by day, the dense
\* series built from the counter over the same range, and its sum
EventsDailySeries(events_json, start_date, today) ==
  LET events_by_day == ExtractEventsByDay(events_json, start_date, today) IN
  IF events_by_day.raised THEN events_by_day
  ELSE LET series == BuildTimeSeries(events_by_day.value, start_date, today)
       IN Ok([dates |-> series.dates,
              event_counts |-> series.counts,
              total_events_last_period |-> SumList(series.counts)])

\* dict(zip(dates, counts)) of a series: the mapping dates[i] -> counts[i]
SeriesMapping(dates, counts) ==
  [d \in Range(dates) |-> counts[CHOOSE i \in 1..Len(dates) : dates[i] = d]]

-----------------------------------------------------------------------------
(* The overview page *)

\* create_overview_page that refuses a series without a non-zero count as well
CreateOverviewPageRejectsAllZero(dates, event_counts, attr_counts) ==
  IF dates = <<>> \/ ~AnyCount(event_counts) THEN Raise("ValueError")
  ELSE IF Len(event_counts) # Len(dates) \/ Len(attr_counts) # Len(dates)
    THEN Raise("ValueError")
  ELSE Ok([period |-> <<dates[1], dates[Len(dates)]>>,
           events |-> [i \in 1..Len(dates) |-> <<dates[i], event_counts[i]>>],
           attributes |-> [i \in 1..Len(dates) |-> <<dates[i], attr_counts[i]>>]])

\* create_overview_page(pdf, dates, event_counts, attr_counts, ...): raises
\* ValueError for an empty date axis; otherwise the page shows the period
\* dates[0] - dates[-1] and plots the two series over the dates (plot raises
\* ValueError where a series and the axis differ in length).
CreateOverviewPage(dates, event_counts, attr_counts) ==
  IF dates = <<>> THEN Raise("ValueError")
  ELSE IF Len(event_counts) # Len(dates) \/ Len(attr_counts) # Len(dates)
    THEN Raise("ValueError")
  ELSE Ok([period |-> <<dates[1], dates[Len(dates)]>>,
           events |-> [i \in 1..Len(dates) |-> <<dates[i], event_counts[i]>>],
           attributes |-> [i \in 1..Len(dates) |-> <<dates[i], attr_counts[i]>>]])

\* main, the overview page: both daily series are built over the same range
\* and handed to create_overview_page
OverviewPage(events_by_day, attrs_by_day, start_date, today) ==
  LET events == BuildTimeSeries(events_by_day, start_date, today)
      attrs == BuildTimeSeries(attrs_by_day, start_date, today)
  IN CreateOverviewPage(events.dates, events.counts, attrs.counts)

\* start_date of main with the whole of `days` subtracted
MainStartDateFullDays(today, days) == today - days

\* main: start_date = today - timedelta(days=days - 1)
MainStartDate(today, days) == today - (days - 1)

\* main from the configured days to the overview page: the events and the
\* attributes of the last `days` days are counted by day, both series are
\* built from start_date to today and handed to create_overview_page; an
\* exception of an extractor ends the run before the page
MainOverview(events_json, attrs_json, today, days) ==
  LET start_date == MainStartDate(today, days)
      events_by_day == ExtractEventsByDay(events_json, start_date, today)
      attrs_by_day == ExtractAttributesByDay(attrs_json, start_date, today)
  IN IF events_by_day.raised THEN events_by_day
     ELSE IF attrs_by_day.raised THEN attrs_by_day
     ELSE OverviewPage(events_by_day.value, attrs_by_day.value, start_date, today)

-----------------------------------------------------------------------------
(* The totals main computes from the collected dates *)

\* sum(1 for d in dates if d > start_30d): the first day of the window left out
RECURSIVE CountAfter(_, _)
CountAfter(dates, start_30d) ==
  IF dates = <<>> THEN 0
  ELSE (IF Head(dates) > start_30d THEN 1 ELSE 0) + CountAfter(Tail(dates), start_30d)

\* sum(1 for d in dates if d >= start_30d)
RECURSIVE CountSince(_, _)
CountSince(dates, start_30d) ==
  IF dates = <<>> THEN 0
  ELSE (IF Head(dates) >= start_30d THEN 1 ELSE 0) + CountSince(Tail(dates), start_30d)

\* sum(count for day, count in counter.items() if day >= start_30d)
RECURSIVE SumSince(_, _)
SumSince(counter, start_30d) ==
  IF DOMAIN counter = {} THEN 0
  ELSE LET day == CHOOSE d \in DOMAIN counter : TRUE
           rest == [d \in DOMAIN counter \ {day} |-> counter[d]]
       IN (IF day >= start_30d THEN counter[day] ELSE 0) + SumSince(rest, start_30d)

\* start_weeks = today - timedelta(days=weeks * 7 - 1)
StartWeeks(today, weeks) == today - (weeks * 7 - 1)

\* start_30d three days late: later than the start of a window of four weeks
Start30dLate(today) == today - 26

\* start_30d = today - timedelta(days=29)
Start30d(today) == today - 29

\* main, M365 MiTM phishing: the event dates and their totals
MitmTotals(m365_events_json, today, weeks, eventinfo_prefix) ==
  LET m365_event_dates == ExtractEventDatesWithPrefix(m365_events_json,
                            StartWeeks(today, weeks), today, eventinfo_prefix) IN
  IF m365_event_dates.raised THEN m365_event_dates
  ELSE Ok([dates |-> m365_event_dates.value,
           total_period |-> Len(m365_event_dates.value),
           total_30d |-> CountSince(m365_event_dates.value, Start30d(today))])

\* main, FakeUpdates domains: the counter by day, the sum of its daily
\* series and the sum of its counts since start_30d
FakeDomainTotals(fake_attrs_json, today, weeks) ==
  LET fake_domains_by_day == ExtractDomainAttributesByDay(fake_attrs_json,
                               StartWeeks(today, weeks), today) IN
  IF fake_domains_by_day.raised THEN fake_domains_by_day
  ELSE Ok([by_day |-> fake_domains_by_day.value,
           total_period |->
             SumList(BuildTimeSeries(fake_domains_by_day.value,
                                     StartWeeks(today, weeks), today).counts),
           total_30d |-> SumSince(fake_domains_by_day.value, Start30d(today))])

\* main, URLs of the secondary instance: the attribute dates and their totals
UrlTotals(sec_events_json, today, weeks) ==
  LET url_dates == ExtractUrlAttributeDatesFromEvent(sec_events_json,
                     StartWeeks(today, weeks), today) IN
  IF url_dates.raised THEN url_dates
  ELSE LET weekly == BuildWeeklyTimeSeries(url_dates.value, weeks, today) IN
       Ok([dates |-> url_dates.value,
           week_dates |-> weekly.week_starts,
           week_counts |-> weekly.counts,
           total_period |-> Len(url_dates.value),
           total_30d |-> CountSince(url_dates.value, Start30d(today))])

-----------------------------------------------------------------------------
(* Totals via pagination: get_total_via_pagination asks the source page by  *)
(* page.  The source holds a number of records, or answers every page with  *)
(* a full page (endless).                                                   *)

\* limit = 5000
PaginationLimit == 5000

\* len(x)
PyLen(x) ==
  CASE x.t = "list" -> Ok(Len(x.items))
    [] x.t = "dict" -> Ok(Len(x.pairs))
    [] x.t = "str" -> Ok(Len(x.chars))
    [] OTHER -> Raise("TypeError")

\* payload = {"returnFormat": "json", "page": page, "limit": limit}, updated
\* with the filters where they are given
PaginationPayload(page, limit, filters) ==
  [returnFormat |-> "json", page |-> page, limit |-> limit, filters |-> filters]

\* How many records the source returns for a payload: the records
\* (page - 1) * limit + 1 to page * limit of those it holds
RecordsOnPage(source, payload) ==
  IF source.endless THEN payload.limit
  ELSE LET before == (payload.page - 1) * payload.limit
           left == source.records - before
       IN IF left <= 0 THEN 0 ELSE IF left < payload.limit THEN left ELSE payload.limit

\* misp_rest_search: resp.json() of the restSearch of the endpoint for the
\* payload, a list of events or a mapping with the list of attributes
MispRestSearch(source, endpoint, payload) ==
  LET n == RecordsOnPage(source, payload) IN
  IF endpoint = "events"
    THEN PyDict(<<KV("response", PyList([i \in 1..n |-> PyDict(<<KV("Event", PyDict(<<>>))>>)]))>>)
    ELSE PyDict(<<KV("response",
                     PyDict(<<KV("Attribute", PyList([i \in 1..n |-> PyDict(<<>>)]))>>))>>)

\* The test that ends the loop, with a full page taken for the last as well
LastPageOrFull(count, limit) == count <= limit

\* if count < limit: break
LastPage(count, limit) == count < limit

-----------------------------------------------------------------------------
(* Mattermost posts: mm_fetch_posts_since asks a channel page by page.  The *)
(* channel is the sequence of its posts as the server lists them; a page    *)
(* holds the ids of per_page of them ("order") and the posts by id          *)
(* ("posts"), where a post may be missing.                                  *)

\* The ids of the posts of a channel, by position
PostIds == <<"p1", "p2", "p3", "p4", "p5", "p6", "p7", "p8">>

\* The post at position i of a channel: created at since_ms ("new"), a
\* millisecond before it ("old"), or without "create_at" ("undated")
PostAt(i, kind, since_ms) ==
  CASE kind = "new" -> PyDict(<<KV("id", PyInt(i)), KV("create_at", PyInt(since_ms))>>)
    [] kind = "old" -> PyDict(<<KV("id", PyInt(i)), KV("create_at", PyInt(since_ms - 1))>>)
    [] OTHER -> PyDict(<<KV("id", PyInt(i))>>)

\* mm_get of /api/v4/channels/<id>/posts: the page params.page of
\* params.per_page posts of the channel; a post of kind "absent" is listed
\* in "order" and missing in "posts"
MmGetPosts(channel, params, since_ms) ==
  LET first == params.page * params.per_page + 1
      last == IF first + params.per_page - 1 < Len(channel)
                THEN first + params.per_page - 1 ELSE Len(channel)
      listed == [j \in 1..(IF last < first THEN 0 ELSE last - first + 1) |-> first + j - 1]
      present == SelectSeq(listed, LAMBDA i : channel[i] # "absent")
  IN PyDict(<<KV("order", PyList([j \in 1..Len(listed) |->
                                    [t |-> "key", k |-> PostIds[listed[j]]]])),
              KV("posts", PyDict([j \in 1..Len(present) |->
                                    KV(PostIds[present[j]],
                                       PostAt(present[j], channel[present[j]], since_ms))]))>>)

\* x or default
OrElse(x, default) == IF Truthy(x) THEN x ELSE default

\* The test on a post's time with the posts created at since_ms left out
CreatedAfter(create_at, since_ms) == create_at > since_ms

\* int(p.get("create_at", 0)) >= since_ms
CreatedSince(create_at, since_ms) == create_at >= since_ms

\* for pid in order: a missing post is passed over, a post created at or
\* after since_ms is appended, the first older post ends the loop with stop
RECURSIVE MmOrderLoop(_, _, _, _, _)
MmOrderLoop(order, i, postmap, since_ms, posts) ==
  IF i > Len(order) THEN Ok([posts |-> posts, stop |-> FALSE])
  ELSE LET post == DictGet(postmap, order[i].k, PyNone) IN
    IF ~Truthy(post) THEN MmOrderLoop(order, i + 1, postmap, since_ms, posts)
    ELSE LET create_at == PyIntOf(DictGet(post, "create_at", PyInt(0))) IN
      IF create_at.raised THEN create_at
      ELSE IF CreatedSince(create_at.value, since_ms)
        THEN MmOrderLoop(order, i + 1, postmap, since_ms, Append(posts, post))
      ELSE Ok([posts |-> posts, stop |-> TRUE])

-----------------------------------------------------------------------------
(* The worklog pages: create_worklog_pages sorts the posts of the worklog   *)
(* channel, selects the tagged ones and lays them out page by page.  The    *)
(* height y on a page is counted in thousandths of the page height; a page  *)
(* of the pdf is recorded as the posts drawn on it.  Where a text is read   *)
(* many times it is bound once, as the element of a one-element set.        *)

\* The characters str.split() takes for blanks
Blanks == {" ", "\t", "\n", "\r"}

\* The k-th smallest of a set of positions
Nth(S, k) == CHOOSE i \in S : Cardinality({j \in S : j < i}) = k - 1

\* msg.split(): the words between runs of blanks; a word starts where a
\* character that is no blank follows a blank or nothing, and ends where
\* one is followed by a blank or nothing
Words(s) ==
  CHOOSE words \in
    {[k \in 1..Cardinality(starts) |-> SubSeq(s, Nth(starts, k), Nth(ends, k))] :
       starts \in {{i \in 1..Len(s) : s[i] \notin Blanks /\ (i = 1 \/ s[i - 1] \in Blanks)}},
       ends \in {{i \in 1..Len(s) : s[i] \notin Blanks /\ (i = Len(s) \/ s[i + 1] \in Blanks)}}} :
    TRUE

\* msg.replace("\r", " ")
ReplaceCr(s) == [i \in 1..Len(s) |-> IF s[i] = "\r" THEN " " ELSE s[i]]

\* The wrap loop: a word that would make the line longer than 130 starts a
\* new line
RECURSIVE WrapLoop(_, _, _, _)
WrapLoop(words, i, lines, cur) ==
  IF i > Len(words) THEN (IF cur # <<>> THEN Append(lines, cur) ELSE lines)
  ELSE LET w == words[i] IN
    IF Len(cur) + Len(w) + (IF cur # <<>> THEN 1 ELSE 0) > 130
      THEN WrapLoop(words, i + 1, Append(lines, cur), w)
      ELSE WrapLoop(words, i + 1, lines, Strip(cur \o <<" ">> \o w))

\* for line in lines[:5]: a line is drawn and y lowered by 0.022; the loop
\* ends where y <= 0.10
RECURSIVE DrawLines(_, _, _)
DrawLines(lines, i, y) ==
  IF i > Len(lines) \/ i > 5 THEN y
  ELSE IF y - 22 <= 100 THEN y - 22
  ELSE DrawLines(lines, i + 1, y - 22)

\* The text of a post: (p.get("message") or "")
MessageOf(post) ==
  LET message == DictGet(post, "message", PyNone) IN
  IF Truthy(message) THEN message.chars ELSE <<>>

\* One post drawn at height y: the time, the wrapped lines, the rule; the
\* result is y below the post
DrawPost(post, y) ==
  CHOOSE below \in
    {DrawLines(lines, 1, y - 22) - 12 - 20 :
       lines \in {WrapLoop(words, 1, <<>>, <<>>) :
         words \in {Words(msg) :
           msg \in {Strip(ReplaceCr(message)) : message \in {MessageOf(post)}}}}} :
    TRUE

\* The test of the inner loop with one post more than max_items_per_page
\* let on a page
PageHasRoomForOneMore(items, max_items_per_page, y) ==
  items <= max_items_per_page /\ y > 100

\* items < max_items_per_page and y > 0.10
PageHasRoom(items, max_items_per_page, y) ==
  items < max_items_per_page /\ y > 100

\* The sort key of a post: int(p.get("create_at", 0))
CreateAtKey(post) == PyIntOf(DictGet(post, "create_at", PyInt(0))).value

\* posts.sort(key=lambda p: int(p.get("create_at", 0))): a stable sort; a
\* post stands behind the posts of a smaller key and the earlier posts of
\* its own key
SortedByCreateAt(posts) ==
  LET before(i) == {j \in 1..Len(posts) :
                      \/ CreateAtKey(posts[j]) < CreateAtKey(posts[i])
                      \/ CreateAtKey(posts[j]) = CreateAtKey(posts[i]) /\ j < i}
  IN [k \in 1..Len(posts) |->
        posts[CHOOSE i \in 1..Len(posts) : Cardinality(before(i)) = k - 1]]

TagReporting == <<"#", "r", "e", "p", "o", "r", "t", "i", "n", "g">>
TagIncident == <<"#", "i", "n", "c", "i", "d", "e", "n", "t">>

\* msg and ("#reporting" in msg or "#incident" in msg), msg the stripped text
IsSelected(post) ==
  \E msg \in {Strip(MessageOf(post))} :
    msg # <<>> /\ (Contains(msg, TagReporting) \/ Contains(msg, TagIncident))

\* y where the posts of a page start: 0.86, below the contents on the first
\* page where the index is included
PageTop(include_index, page_no) ==
  IF include_index /\ page_no = 1
    THEN 860 - 30 - 25 - 25 - 25 - 25 - 40 - 30
    ELSE 860

-----------------------------------------------------------------------------
(* main: the Mattermost configuration and the pdf phase.  The pages of the   *)
(* pdf are recorded by the name of the step that saved them.                 *)

\* d[k]: a KeyError for a missing key, a TypeError where d is no mapping
Subscript(d, k) ==
  IF ~IsDict(d) THEN Raise("TypeError")
  ELSE IF HasKey(d, k) THEN Ok(DictAt(d, k))
  ELSE Raise("KeyError")

\* d[k1][k2]...
RECURSIVE SubscriptPath(_, _)
SubscriptPath(d, keys) ==
  IF keys = <<>> THEN Ok(d)
  ELSE LET inner == Subscript(d, Head(keys)) IN
    IF inner.raised THEN inner ELSE SubscriptPath(inner.value, Tail(keys))

\* mm_ok: the configuration is there and each of the five lookups succeeds
MattermostEnabled(mm_cfg) ==
  /\ Truthy(mm_cfg)
  /\ ~SubscriptPath(mm_cfg, <<"url">>).raised
  /\ ~SubscriptPath(mm_cfg, <<"token">>).raised
  /\ ~SubscriptPath(mm_cfg, <<"activity_channels", "a", "id">>).raised
  /\ ~SubscriptPath(mm_cfg, <<"activity_channels", "b", "id">>).raised
  /\ ~SubscriptPath(mm_cfg, <<"worklog_channel", "id">>).raised

\* The steps main would wrap in try/except if the overview page were
\* guarded like the Mattermost pages
CaughtInMainWithOverview(step) ==
  step \in {"worklog", "overview", "activity", "index_html"}

\* The steps main wraps in try/except Exception
CaughtInMain(step) == step \in {"worklog", "activity", "index_html"}

-----------------------------------------------------------------------------
(* The responses the model is run on: what resp.json() of a restSearch may   *)
(* hold.  Record 1 has a parseable date and a timestamp of another day,      *)
(* record 2 a date string naming no calendar day and a valid timestamp,      *)
(* record 3 is wrapped under "Event" and has only a timestamp, record 4 has  *)
(* no usable date, record 5 a parseable date and a junk timestamp, record 6  *)
(* another info text and no tags, record 7 is wrapped under "Attribute";     *)
(* the last two are malformed: an element that is no mapping, and a record   *)
(* whose "date" is a number.                                                 *)

Date19700101 == PyStr(<<"1", "9", "7", "0", "-", "0", "1", "-", "0", "1">>)
Date19700102 == PyStr(<<"1", "9", "7", "0", "-", "0", "1", "-", "0", "2">>)
Date19700103 == PyStr(<<"1", "9", "7", "0", "-", "0", "1", "-", "0", "3">>)
DateNoSuchDay == PyStr(<<"1", "9", "7", "0", "-", "0", "2", "-", "3", "0">>)
DateJunk == PyStr(<<"j", "u", "n", "k">>)
Ts0 == PyStr(<<"0">>)
Ts86400 == PyStr(<<"8", "6", "4", "0", "0">>)
Ts172800 == PyStr(<<"1", "7", "2", "8", "0", "0">>)
TsJunk == PyStr(<<"a", "b", "c">>)
InfoM365 == PyStr(<<"M", "3", "6", "5", " ", "M", "i", "T", "M", " ", "p", "h", "i", "s", "h", "i", "n", "g", " ", "k", "i", "t">>)
InfoM365Lower == PyStr(<<"m", "3", "6", "5", " ", "m", "i", "t", "m", " ", "P", "H", "I", "S", "H", "I", "N", "G">>)
InfoOther == PyStr(<<"O", "t", "h", "e", "r">>)
PrefixM365 == PyStr(<<"M", "3", "6", "5", " ", "M", "i", "T", "M", " ", "p", "h", "i", "s", "h", "i", "n", "g">>)
TypeDomain == PyStr(<<"d", "o", "m", "a", "i", "n">>)
TypeDomainIp == PyStr(<<"d", "o", "m", "a", "i", "n", "|", "i", "p">>)
TypeUrl == PyStr(<<"u", "r", "l">>)
TagFormbook == PyStr(<<"F", "o", "r", "m", "b", "o", "o", "k", "_", "p", "h", "i", "s", "h", "i", "n", "g">>)
TagTwoFamilies == PyStr(<<"x", " ", "f", "o", "r", "m", "b", "o", "o", "k", " ", "r", "e", "m", "c", "o", "s", "r", "a", "t">>)
TagFormbookUpper == PyStr(<<"F", "O", "R", "M", "B", "O", "O", "K">>)
TagRemcos == PyStr(<<"R", "e", "m", "c", "o", "s", "R", "A", "T", "_", "c", "2">>)
TagOther == PyStr(<<"t", "l", "p", ":", "g", "r", "e", "e", "n">>)

Record1 ==
  PyDict(<<KV("date", Date19700102), KV("timestamp", Ts172800), KV("info", InfoM365),
           KV("type", TypeDomain),
           KV("Tag", PyList(<<PyDict(<<KV("name", TagFormbook)>>)>>)),
           KV("Object", PyList(<<PyDict(<<KV("date", Date19700103), KV("timestamp", Ts0)>>),
                                 PyDict(<<KV("Object", PyDict(<<KV("timestamp", PyInt(86400))>>))>>)>>)),
           KV("Attribute", PyList(<<PyDict(<<KV("type", TypeUrl), KV("date", Date19700103),
                                             KV("timestamp", Ts86400)>>)>>))>>)

Record2 ==
  PyDict(<<KV("date", DateNoSuchDay), KV("timestamp", PyInt(86400)), KV("info", InfoM365Lower),
           KV("type", TypeDomainIp),
           KV("Tag", PyList(<<PyDict(<<KV("Tag", PyDict(<<KV("name", TagTwoFamilies)>>))>>),
                              PyDict(<<KV("name", TagFormbookUpper)>>)>>)),
           KV("Object", PyList(<<PyDict(<<KV("date", DateJunk), KV("timestamp", Ts172800)>>)>>))>>)

Record3 ==
  PyDict(<<KV("Event",
     PyDict(<<KV("timestamp", Ts0), KV("info", InfoM365),
              KV("Tag", PyList(<<PyDict(<<KV("name", TagRemcos)>>),
                                 PyDict(<<KV("name", TagOther)>>)>>)),
              KV("Attribute", PyList(<<PyDict(<<KV("Attribute",
                                          PyDict(<<KV("type", TypeUrl), KV("timestamp", PyInt(172800))>>))>>),
                                       PyDict(<<KV("type", TypeDomain), KV("timestamp", PyInt(0))>>)>>))>>))>>)

Record4 ==
  PyDict(<<KV("date", PyStr(<<>>)), KV("timestamp", TsJunk), KV("info", InfoM365),
           KV("type", TypeDomain),
           KV("Tag", PyList(<<PyDict(<<KV("name", TagRemcos)>>)>>)),
           KV("Object", PyList(<<PyDict(<<KV("date", DateNoSuchDay)>>)>>))>>)

Record5 ==
  PyDict(<<KV("date", Date19700101), KV("timestamp", TsJunk), KV("info", InfoM365),
           KV("Tag", PyList(<<PyDict(<<KV("name", TagFormbookUpper)>>)>>)),
           KV("Object", PyNone)>>)

Record6 ==
  PyDict(<<KV("date", Date19700103), KV("timestamp", Ts0), KV("info", InfoOther),
           KV("type", TypeUrl),
           KV("Object", PyList(<<PyDict(<<KV("timestamp", Ts86400)>>)>>))>>)

Record7 ==
  PyDict(<<KV("Attribute",
     PyDict(<<KV("type", TypeDomain), KV("date", Date19700101), KV("timestamp", Ts86400)>>))>>)

RecordNotMapping == PyInt(7)

RecordDateNumber ==
  PyDict(<<KV("date", PyInt(5)), KV("timestamp", Ts0), KV("info", InfoM365),
           KV("Tag", PyList(<<PyDict(<<KV("name", TagFormbook)>>)>>))>>)

\* Records every field of which has the type the extractors expect
WellTypedRecords == {Record1, Record2, Record3, Record4, Record5, Record6, Record7}

\* The records of an events response
EventRecords == {Record1, Record2, Record3, Record4, Record5, Record6,
                 RecordNotMapping, RecordDateNumber}

\* The records of an attributes response
AttributeRecords == EventRecords \cup {Record7}

\* Longest record list of a response
MaxLen == 2

\* Last day (since 1970-01-01) a date range may start or end on
MaxDay == 2

RECURSIVE SeqsUpTo(_, _)
SeqsUpTo(S, n) ==
  IF n = 0 THEN {<<>>}
  ELSE LET shorter == SeqsUpTo(S, n - 1) IN
    shorter \cup {Append(q, x) : q \in {r \in shorter : Len(r) = n - 1}, x \in S}

\* The shapes an events response wraps its record list in
EventShapes(list) ==
  {PyDict(<<KV("response", PyDict(<<KV("Event", PyList(list))>>))>>),
   PyDict(<<KV("Event", PyList(list))>>),
   PyDict(<<KV("response", PyList(list))>>)}

\* The shapes an attributes response wraps its record list in, and an
\* events response whose events nest attributes
AttributeShapes(list) ==
  {PyDict(<<KV("response", PyDict(<<KV("Attribute", PyList(list))>>))>>),
   PyDict(<<KV("Attribute", PyList(list))>>),
   PyDict(<<KV("response", PyList(list))>>),
   PyDict(<<KV("response", PyDict(<<KV("Event", PyList(list))>>))>>)}

\* Responses of another shape: no mapping at the top (a bare list, a number,
\* None), or a mapping whose payload is not the expected collection (among
\* them a payload mapping that holds a record under another key)
OddResponses ==
  {PyList(<<>>), PyList(<<Record1>>), PyList(<<Record2, Record3>>), PyInt(3), PyNone,
   PyDict(<<>>),
   PyDict(<<KV("response", PyInt(5))>>),
   PyDict(<<KV("response", PyNone)>>),
   PyDict(<<KV("response", PyDict(<<>>))>>),
   PyDict(<<KV("response", PyDict(<<KV("0", Record1)>>))>>),
   PyDict(<<KV("response", PyDict(<<KV("Event", PyInt(5)), KV("Attribute", PyNone)>>))>>),
   PyDict(<<KV("errors", PyStr(<<>>)), KV("Attribute", PyList(<<Record7>>)),
            KV("Event", PyList(<<Record1>>))>>)}

EventResponses ==
  UNION {EventShapes(list) : list \in SeqsUpTo(EventRecords, MaxLen)} \cup OddResponses

AttributeResponses ==
  UNION {AttributeShapes(list) : list \in SeqsUpTo(AttributeRecords, MaxLen)} \cup OddResponses

DateRanges == {r \in (0..MaxDay) \X (0..MaxDay) : r[1] <= r[2]}

\* No service is asked, and no function is in a loop
NoRemote == [service |-> "none"]
NoLocals == [pc |-> "none"]

\* {family: [] for family in family_keywords}
NoDatesByFamily == [family \in Range(STEALER_FAMILY_KEYWORDS) |-> <<>>]

NoArgs ==
  [endpoint |-> "", start_date |-> 0, end_date |-> 0, eventinfo_prefix |-> PyNone,
   weeks |-> 0, days |-> 0]

-----------------------------------------------------------------------------
(* The state machine: a response is fetched, then a function is called on    *)
(* it and the caller takes the outcome.                                      *)

\* Largest count a counter handed to the daily builder holds for a day
MaxCount == 2

\* The counters handed to build_time_series: days up to one past the last
\* range end, each absent or counted 1..MaxCount times
Counters == UNION {[D -> 1..MaxCount] : D \in SUBSET (0..(MaxDay + 1))}

ExtractorOps ==
  {"extract_events_by_day", "extract_attributes_by_day", "extract_object_dates",
   "extract_event_dates_with_prefix", "extract_domain_attributes_by_day",
   "extract_url_attribute_dates_from_event", "extract_tagged_event_dates_by_family"}

\* The outcome of the extractor named name on json with arguments a
ExtractorResult(name, json, a) ==
  CASE name = "extract_events_by_day" ->
         ExtractEventsByDay(json, a.start_date, a.end_date)
    [] name = "extract_attributes_by_day" ->
         ExtractAttributesByDay(json, a.start_date, a.end_date)
    [] name = "extract_object_dates" ->
         ExtractObjectDates(json, a.start_date, a.end_date, a.eventinfo_prefix)
    [] name = "extract_event_dates_with_prefix" ->
         ExtractEventDatesWithPrefix(json, a.start_date, a.end_date, a.eventinfo_prefix)
    [] name = "extract_domain_attributes_by_day" ->
         ExtractDomainAttributesByDay(json, a.start_date, a.end_date)
    [] name = "extract_url_attribute_dates_from_event" ->
         ExtractUrlAttributeDatesFromEvent(json, a.start_date, a.end_date)
    [] name = "extract_tagged_event_dates_by_family" ->
         ExtractTaggedEventDatesByFamily(json, a.start_date, a.end_date,
                                         STEALER_FAMILY_KEYWORDS)

Init ==
  /\ raw \in EventResponses
  /\ counter_in = <<>>
  /\ dates_in = <<>>
  /\ families_in = NoDatesByFamily
  /\ remote = NoRemote
  /\ locals = NoLocals
  /\ op = "fetched"
  /\ args = NoArgs
  /\ result = Ok(<<>>)

CallExtractItemsFromResponse ==
  /\ op = "fetched"
  /\ \E endpoint \in {"events", "attributes"} :
       /\ args' = [NoArgs EXCEPT !.endpoint = endpoint]
       /\ result' = ExtractItemsFromResponse(endpoint, raw)
  /\ op' = "_extract_items_from_response"
  /\ UNCHANGED <<raw, counter_in, dates_in, families_in, remote, locals>>

CallExtractEventsByDay ==
  /\ op = "fetched"
  /\ \E r \in DateRanges :
       /\ args' = [NoArgs EXCEPT !.start_date = r[1], !.end_date = r[2]]
       /\ result' = ExtractorResult("extract_events_by_day", raw, args')
  /\ op' = "extract_events_by_day"
  /\ UNCHANGED <<raw, counter_in, dates_in, families_in, remote, locals>>

CallExtractAttributesByDay ==
  /\ op = "fetched"
  /\ \E r \in DateRanges :
       /\ args' = [NoArgs EXCEPT !.start_date = r[1], !.end_date = r[2]]
       /\ result' = ExtractorResult("extract_attributes_by_day", raw, args')
  /\ op' = "extract_attributes_by_day"
  /\ UNCHANGED <<raw, counter_in, dates_in, families_in, remote, locals>>

\* eventinfo_prefix defaults to None; main passes "M365 MiTM phishing"
CallExtractObjectDates ==
  /\ op = "fetched"
  /\ \E r \in DateRanges, prefix \in {PyNone, PrefixM365} :
       /\ args' = [NoArgs EXCEPT !.start_date = r[1], !.end_date = r[2],
                                 !.eventinfo_prefix = prefix]
       /\ result' = ExtractorResult("extract_object_dates", raw, args')
  /\ op' = "extract_object_dates"
  /\ UNCHANGED <<raw, counter_in, dates_in, families_in, remote, locals>>

CallExtractEventDatesWithPrefix ==
  /\ op = "fetched"
  /\ \E r \in DateRanges, prefix \in {PrefixM365} :
       /\ args' = [NoArgs EXCEPT !.start_date = r[1], !.end_date = r[2],
                                 !.eventinfo_prefix = prefix]
       /\ result' = ExtractorResult("extract_event_dates_with_prefix", raw, args')
  /\ op' = "extract_event_dates_with_prefix"
  /\ UNCHANGED <<raw, counter_in, dates_in, families_in, remote, locals>>

CallExtractDomainAttributesByDay ==
  /\ op = "fetched"
  /\ \E r \in DateRanges :
       /\ args' = [NoArgs EXCEPT !.start_date = r[1], !.end_date = r[2]]
       /\ result' = ExtractorResult("extract_domain_attributes_by_day", raw, args')
  /\ op' = "extract_domain_attributes_by_day"
  /\ UNCHANGED <<raw, counter_in, dates_in, families_in, remote, locals>>

CallExtractUrlAttributeDatesFromEvent ==
  /\ op = "fetched"
  /\ \E r \in DateRanges :
       /\ args' = [NoArgs EXCEPT !.start_date = r[1], !.end_date = r[2]]
       /\ result' = ExtractorResult("extract_url_attribute_dates_from_event", raw, args')
  /\ op' = "extract_url_attribute_dates_from_event"
  /\ UNCHANGED <<raw, counter_in, dates_in, families_in, remote, locals>>

\* main passes STEALER_FAMILY_KEYWORDS
CallExtractTaggedEventDatesByFamily ==
  /\ op = "fetched"
  /\ \E r \in DateRanges :
       /\ args' = [NoArgs EXCEPT !.start_date = r[1], !.end_date = r[2]]
       /\ result' = ExtractorResult("extract_tagged_event_dates_by_family", raw, args')
  /\ op' = "extract_tagged_event_dates_by_family"
  /\ UNCHANGED <<raw, counter_in, dates_in, families_in, remote, locals>>

CallBuildTimeSeries ==
  /\ op = "fetched"
  /\ \E r \in DateRanges :
       /\ args' = [NoArgs EXCEPT !.start_date = r[1], !.end_date = r[2]]
       /\ result' = Ok(BuildTimeSeries(counter_in, r[1], r[2]))
       /\ counter_in' = CounterAfterBuild(counter_in, r[1], r[2])
  /\ op' = "build_time_series"
  /\ UNCHANGED <<raw, dates_in, families_in, remote, locals>>

\* The caller takes the outcome; the inputs are still at hand.
Return ==
  /\ op # "fetched"
  /\ op' = "fetched"
  /\ args' = NoArgs
  /\ result' = Ok(<<>>)
  /\ UNCHANGED <<raw, counter_in, dates_in, families_in, remote, locals>>

\* An events response and the functions main hands it to
Next ==
  \/ Return
  \/ CallExtractItemsFromResponse
  \/ CallExtractEventsByDay
  \/ CallExtractObjectDates
  \/ CallExtractEventDatesWithPrefix
  \/ CallExtractTaggedEventDatesByFamily

Spec == Init /\ [][Next]_vars

\* An attributes response (or an events response with nested attributes)
\* and the functions that read attributes
InitAttributes ==
  /\ raw \in AttributeResponses
  /\ counter_in = <<>>
  /\ dates_in = <<>>
  /\ families_in = NoDatesByFamily
  /\ remote = NoRemote
  /\ locals = NoLocals
  /\ op = "fetched"
  /\ args = NoArgs
  /\ result = Ok(<<>>)

NextAttributes ==
  \/ Return
  \/ CallExtractAttributesByDay
  \/ CallExtractDomainAttributesByDay
  \/ CallExtractUrlAttributeDatesFromEvent

SpecAttributes == InitAttributes /\ [][NextAttributes]_vars

\* A counter and the daily builder
InitBuild ==
  /\ raw = PyNone
  /\ counter_in \in Counters
  /\ dates_in = <<>>
  /\ families_in = NoDatesByFamily
  /\ remote = NoRemote
  /\ locals = NoLocals
  /\ op = "fetched"
  /\ args = NoArgs
  /\ result = Ok(<<>>)

\* The series just built is fed back to build_time_series as a mapping, on
\* the same range
CallBuildTimeSeriesAgain ==
  /\ op = "build_time_series"
  /\ LET fed == result.value
         again == BuildTimeSeries(SeriesMapping(fed.dates, fed.counts),
                                  args.start_date, args.end_date)
     IN result' = Ok([dates |-> again.dates, counts |-> again.counts, fed |-> fed])
  /\ op' = "build_time_series_again"
  /\ UNCHANGED <<raw, counter_in, dates_in, families_in, remote, locals, args>>

NextBuild ==
  \/ Return
  \/ CallBuildTimeSeries
  \/ CallBuildTimeSeriesAgain

SpecBuild == InitBuild /\ [][NextBuild]_vars

\* Longest date list handed to a weekly builder
MaxDates == 2

\* Largest number of weeks asked of build_weekly_time_series
MaxWeeks == 2

\* The days (since 1970-01-01) of the dates handed to the weekly builders:
\* the first and last day of two consecutive weeks and the days next to them
WeeklyDays == {-1, 0, 6, 7, 13, 14}

DateLists == SeqsUpTo(WeeklyDays, MaxDates)

\* The days the weekly window may end on
WeeklyEnds == {12, 13}

\* A date list and the weekly builder
InitWeekly ==
  /\ raw = PyNone
  /\ counter_in = <<>>
  /\ dates_in \in DateLists
  /\ families_in = NoDatesByFamily
  /\ remote = NoRemote
  /\ locals = NoLocals
  /\ op = "fetched"
  /\ args = NoArgs
  /\ result = Ok(<<>>)

CallBuildWeeklyTimeSeries ==
  /\ op = "fetched"
  /\ \E weeks \in -1..MaxWeeks, end_date \in WeeklyEnds :
       /\ args' = [NoArgs EXCEPT !.weeks = weeks, !.end_date = end_date]
       /\ result' = Ok(BuildWeeklyTimeSeries(dates_in, weeks, end_date))
  /\ op' = "build_weekly_time_series"
  /\ UNCHANGED <<raw, counter_in, dates_in, families_in, remote, locals>>

NextWeekly ==
  \/ Return
  \/ CallBuildWeeklyTimeSeries

SpecWeekly == InitWeekly /\ [][NextWeekly]_vars

\* The date lists by family handed to build_family_weekly_time_series: a
\* list for every family keyword, empty but for the first and the fourth
DatesByFamily ==
  {[family \in Range(STEALER_FAMILY_KEYWORDS) |->
      IF family = STEALER_FAMILY_KEYWORDS[1] THEN first
      ELSE IF family = STEALER_FAMILY_KEYWORDS[4] THEN fourth
      ELSE <<>>] :
   first \in DateLists, fourth \in SeqsUpTo(WeeklyDays, 1)}

\* The ranges handed to build_family_weekly_time_series: no day, one day,
\* one week, a week and a day, two weeks, from day 0 or day 1
FamilyRanges ==
  {<<start_date, start_date + days_range - 1>> :
     start_date \in {0, 1}, days_range \in {0, 1, 7, 8, 14}}

\* Date lists by family and the family weekly builder
InitFamilyWeekly ==
  /\ raw = PyNone
  /\ counter_in = <<>>
  /\ dates_in = <<>>
  /\ families_in \in DatesByFamily
  /\ remote = NoRemote
  /\ locals = NoLocals
  /\ op = "fetched"
  /\ args = NoArgs
  /\ result = Ok(<<>>)

CallBuildFamilyWeeklyTimeSeries ==
  /\ op = "fetched"
  /\ \E r \in FamilyRanges :
       /\ args' = [NoArgs EXCEPT !.start_date = r[1], !.end_date = r[2]]
       /\ result' = Ok(BuildFamilyWeeklyTimeSeries(families_in, r[1], r[2]))
  /\ op' = "build_family_weekly_time_series"
  /\ UNCHANGED <<raw, counter_in, dates_in, families_in, remote, locals>>

NextFamilyWeekly ==
  \/ Return
  \/ CallBuildFamilyWeeklyTimeSeries

SpecFamilyWeekly == InitFamilyWeekly /\ [][NextFamilyWeekly]_vars

\* An events response and the daily series main builds from it
CallEventsDailySeries ==
  /\ op = "fetched"
  /\ \E r \in DateRanges :
       /\ args' = [NoArgs EXCEPT !.start_date = r[1], !.end_date = r[2]]
       /\ result' = EventsDailySeries(raw, r[1], r[2])
  /\ op' = "events_daily_series"
  /\ UNCHANGED <<raw, counter_in, dates_in, families_in, remote, locals>>

NextEndToEnd ==
  \/ Return
  \/ CallEventsDailySeries

SpecEndToEnd == Init /\ [][NextEndToEnd]_vars

\* The ranges of the overview: start_date = today - (days - 1) days, which
\* is the day after today where the configured days is 0
OverviewRanges == DateRanges \cup {<<today + 1, today>> : today \in 0..MaxDay}

\* The two counters of the overview and the page made of their series
CallCreateOverviewPage ==
  /\ op = "fetched"
  /\ \E r \in OverviewRanges, attrs_by_day \in {<<>>, counter_in} :
       /\ args' = [NoArgs EXCEPT !.start_date = r[1], !.end_date = r[2]]
       /\ result' = OverviewPage(counter_in, attrs_by_day, r[1], r[2])
  /\ op' = "create_overview_page"
  /\ UNCHANGED <<raw, counter_in, dates_in, families_in, remote, locals>>

NextOverview ==
  \/ Return
  \/ CallCreateOverviewPage

SpecOverview == InitBuild /\ [][NextOverview]_vars

\* An attributes response without a record
NoAttributes == PyDict(<<KV("response", PyDict(<<KV("Attribute", PyList(<<>>))>>))>>)

\* main on an events response, with the attributes response empty or of the
\* same content, for a configured days of -1 to MaxDay + 1
CallMainOverview ==
  /\ op = "fetched"
  /\ \E today \in 0..MaxDay, days \in -1..(MaxDay + 1), attrs_json \in {NoAttributes, raw} :
       /\ args' = [NoArgs EXCEPT !.end_date = today, !.days = days]
       /\ result' = MainOverview(raw, attrs_json, today, days)
  /\ op' = "main_overview"
  /\ UNCHANGED <<raw, counter_in, dates_in, families_in, remote, locals>>

NextMainOverview ==
  \/ Return
  \/ CallMainOverview

SpecMainOverview == Init /\ [][NextMainOverview]_vars

\* The days main may run on and the weeks it may be configured with: the
\* weeks window is shorter (4 weeks) or longer (5 weeks) than 30 days, or it
\* is of one week or of none
TotalsRuns == ({29, 30} \X {4, 5}) \cup {<<31, 5>>} \cup ({2} \X {0, 1})

CallMitmTotals ==
  /\ op = "fetched"
  /\ \E run \in TotalsRuns :
       /\ args' = [NoArgs EXCEPT !.start_date = StartWeeks(run[1], run[2]),
                                 !.end_date = run[1], !.weeks = run[2],
                                 !.eventinfo_prefix = PrefixM365]
       /\ result' = MitmTotals(raw, run[1], run[2], PrefixM365)
  /\ op' = "mitm_totals"
  /\ UNCHANGED <<raw, counter_in, dates_in, families_in, remote, locals>>

CallFakeDomainTotals ==
  /\ op = "fetched"
  /\ \E run \in TotalsRuns :
       /\ args' = [NoArgs EXCEPT !.start_date = StartWeeks(run[1], run[2]),
                                 !.end_date = run[1], !.weeks = run[2]]
       /\ result' = FakeDomainTotals(raw, run[1], run[2])
  /\ op' = "fake_domain_totals"
  /\ UNCHANGED <<raw, counter_in, dates_in, families_in, remote, locals>>

CallUrlTotals ==
  /\ op = "fetched"
  /\ \E run \in TotalsRuns :
       /\ args' = [NoArgs EXCEPT !.start_date = StartWeeks(run[1], run[2]),
                                 !.end_date = run[1], !.weeks = run[2]]
       /\ result' = UrlTotals(raw, run[1], run[2])
  /\ op' = "url_totals"
  /\ UNCHANGED <<raw, counter_in, dates_in, families_in, remote, locals>>

NextTotals ==
  \/ Return
  \/ CallMitmTotals
  \/ CallFakeDomainTotals
  \/ CallUrlTotals

\* A response (events, or attributes) and the totals main computes from it
SpecTotals == InitAttributes /\ [][NextTotals]_vars

\* A date list, date lists by family or a response, and the weekly builders
\* with the weekly series main builds from a response
InitConserve == InitWeekly \/ InitFamilyWeekly \/ InitAttributes

NextConserve ==
  \/ Return
  \/ CallBuildWeeklyTimeSeries
  \/ CallBuildFamilyWeeklyTimeSeries
  \/ CallUrlTotals

SpecConserve == InitConserve /\ [][NextConserve]_vars

\* Largest page number the model lets get_total_via_pagination ask for
MaxPage == 4

\* The sources asked: none, one, a page less one, a full page, a page and
\* one, two full pages, two pages and one record; and the endless source
MispSources ==
  {[service |-> "misp", endless |-> FALSE, records |-> n] :
     n \in {0, 1, PaginationLimit - 1, PaginationLimit, PaginationLimit + 1,
            2 * PaginationLimit - 1, 2 * PaginationLimit, 2 * PaginationLimit + 1}}
  \cup {[service |-> "misp", endless |-> TRUE, records |-> 0]}

\* filters: none, or the org filter of main
PaginationFilters == {PyNone, PyDict(<<KV("org", PyStr(<<"R">>))>>)}

\* get_total_via_pagination is entered: total = 0, page = 1, limit = 5000
InitPagination ==
  /\ raw = PyNone
  /\ counter_in = <<>>
  /\ dates_in = <<>>
  /\ families_in = NoDatesByFamily
  /\ remote \in MispSources
  /\ op = "get_total_via_pagination"
  /\ \E endpoint \in {"events", "attributes"} : args = [NoArgs EXCEPT !.endpoint = endpoint]
  /\ \E filters \in PaginationFilters :
       locals = [pc |-> "request", total |-> 0, page |-> 1, limit |-> PaginationLimit,
                 filters |-> filters, requests |-> <<>>]
  /\ result = Ok(<<>>)

\* The head of the loop body: the payload is made and the page requested
PaginationRequest ==
  /\ op = "get_total_via_pagination"
  /\ locals.pc = "request"
  /\ locals.page <= MaxPage
  /\ LET payload == PaginationPayload(locals.page, locals.limit,
                      IF Truthy(locals.filters) THEN locals.filters ELSE PyNone)
     IN /\ raw' = MispRestSearch(remote, args.endpoint, payload)
        /\ locals' = [locals EXCEPT !.pc = "count", !.requests = Append(@, payload)]
  /\ UNCHANGED <<counter_in, dates_in, families_in, remote, op, args, result>>

\* The rest of the loop body: the items of the page are counted and added;
\* a page of fewer than limit items ends the loop and total is returned
PaginationCount ==
  /\ op = "get_total_via_pagination"
  /\ locals.pc = "count"
  /\ LET items == ExtractItemsFromResponse(args.endpoint, raw)
         count == IF items.raised THEN items ELSE PyLen(items.value)
     IN IF count.raised
          THEN /\ locals' = [locals EXCEPT !.pc = "returned"]
               /\ result' = Raise(count.exc)
          ELSE LET total == locals.total + count.value IN
               IF LastPage(count.value, locals.limit)
                 THEN /\ locals' = [locals EXCEPT !.pc = "returned", !.total = total]
                      /\ result' = Ok(total)
                 ELSE /\ locals' = [locals EXCEPT !.pc = "request", !.total = total,
                                                  !.page = @ + 1]
                      /\ result' = result
  /\ UNCHANGED <<raw, counter_in, dates_in, families_in, remote, op, args>>

NextPagination ==
  \/ PaginationRequest
  \/ PaginationCount

\* The loop goes on while the program runs
SpecPagination ==
  InitPagination /\ [][NextPagination]_vars /\ WF_vars(NextPagination)

\* Most posts a channel of the model holds
MaxPosts == 4

\* The channels asked: up to MaxPosts posts, each new, old, undated or absent
MmChannels ==
  {[service |-> "mattermost", channel |-> channel] :
     channel \in SeqsUpTo({"new", "old", "undated", "absent"}, MaxPosts)}

\* mm_fetch_posts_since is entered: posts = [], page = 0; per_page is 1 or 2
\* and max_pages 0 to MaxPage
InitFetchPosts ==
  /\ raw = PyNone
  /\ counter_in = <<>>
  /\ dates_in = <<>>
  /\ families_in = NoDatesByFamily
  /\ remote \in MmChannels
  /\ op = "mm_fetch_posts_since"
  /\ args = NoArgs
  /\ \E per_page \in {1, 2}, max_pages \in 0..MaxPage :
       locals = [pc |-> "loop", posts |-> <<>>, page |-> 0, since_ms |-> 1000,
                 per_page |-> per_page, max_pages |-> max_pages, requests |-> <<>>]
  /\ result = Ok(<<>>)

\* One pass of the while loop: the page is requested and its posts are gone
\* through; an empty page or an older post ends the loop, and the posts are
\* returned
MmFetchPage ==
  /\ op = "mm_fetch_posts_since"
  /\ locals.pc = "loop"
  /\ locals.page < locals.max_pages
  /\ LET params == [page |-> locals.page, per_page |-> locals.per_page]
         data == MmGetPosts(remote.channel, params, locals.since_ms)
         order == OrElse(DictGet(data, "order", PyNone), PyList(<<>>))
         postmap == OrElse(DictGet(data, "posts", PyNone), PyDict(<<>>))
         requests == Append(locals.requests, params)
         pass == MmOrderLoop(order.items, 1, postmap, locals.since_ms, locals.posts)
     IN /\ raw' = data
        /\ IF ~Truthy(order)
             THEN /\ locals' = [locals EXCEPT !.pc = "returned", !.requests = requests]
                  /\ result' = Ok(locals.posts)
           ELSE IF pass.raised
             THEN /\ locals' = [locals EXCEPT !.pc = "returned", !.requests = requests]
                  /\ result' = Raise(pass.exc)
           ELSE IF pass.value.stop
             THEN /\ locals' = [locals EXCEPT !.pc = "returned", !.requests = requests,
                                              !.posts = pass.value.posts]
                  /\ result' = Ok(pass.value.posts)
           ELSE /\ locals' = [locals EXCEPT !.requests = requests,
                                            !.posts = pass.value.posts, !.page = @ + 1]
                /\ result' = result
  /\ UNCHANGED <<counter_in, dates_in, families_in, remote, op, args>>

\* page < max_pages fails: the posts are returned
MmFetchEnd ==
  /\ op = "mm_fetch_posts_since"
  /\ locals.pc = "loop"
  /\ ~(locals.page < locals.max_pages)
  /\ locals' = [locals EXCEPT !.pc = "returned"]
  /\ result' = Ok(locals.posts)
  /\ UNCHANGED <<raw, counter_in, dates_in, families_in, remote, op, args>>

NextFetchPosts ==
  \/ MmFetchPage
  \/ MmFetchEnd

SpecFetchPosts == InitFetchPosts /\ [][NextFetchPosts]_vars

\* Most posts the worklog channel of the model returns
MaxWorklog == 5

\* A word of 66 letters: two of them do not go on one line of 130
LongWord == [i \in 1..66 |-> "x"]

\* The messages of the posts: tagged and of one line; tagged and of four
\* lines; with the tag in another case
MessageOfKind(kind) ==
  CASE kind = "short" -> PyStr(<<" ", "o", "k", " ">> \o TagReporting \o <<"\r">>)
    [] kind = "long" ->
         PyStr(TagIncident \o <<" ">> \o LongWord \o <<" ">> \o LongWord \o <<" ">> \o
               LongWord \o <<" ">> \o LongWord)
    [] OTHER -> PyStr(<<"#", "I", "n", "c", "i", "d", "e", "n", "t">>)

\* The posts mm_fetch_posts_since returns for the worklog channel: newest
\* first, each created after since_ms
WorklogPosts(kinds) ==
  [i \in 1..Len(kinds) |->
     PyDict(<<KV("id", PyInt(i)), KV("create_at", PyInt(1000 + Len(kinds) - i)),
              KV("message", MessageOfKind(kinds[i]))>>)]

WorklogChannels ==
  {[service |-> "mattermost", posts |-> WorklogPosts(kinds)] :
     kinds \in SeqsUpTo({"short", "long", "other"}, MaxWorklog)}

\* create_worklog_pages is entered, with max_items_per_page 1, 2 or the 18
\* of main; pdf holds no page
InitWorklog ==
  /\ raw = PyNone
  /\ counter_in = <<>>
  /\ dates_in = <<>>
  /\ families_in = NoDatesByFamily
  /\ remote \in WorklogChannels
  /\ op = "create_worklog_pages"
  /\ args = NoArgs
  /\ \E max_items_per_page \in {1, 2, 18} :
       locals = [pc |-> "select", selected |-> <<>>, idx |-> 0, page_no |-> 1,
                 y |-> 0, drawn |-> <<>>,
                 include_index |-> TRUE, max_items_per_page |-> max_items_per_page,
                 pdf |-> <<>>]
  /\ result = Ok(<<>>)

\* The posts are fetched, sorted and selected; without a selected post the
\* placeholder page is saved and the function returns
WorklogSelect ==
  /\ op = "create_worklog_pages"
  /\ locals.pc = "select"
  /\ \E selected \in {SelectSeq(SortedByCreateAt(remote.posts), IsSelected)} :
       IF selected = <<>>
         THEN /\ locals' = [locals EXCEPT !.pc = "returned",
                              !.pdf = Append(@, [page |-> "worklog placeholder", drawn |-> <<>>])]
              /\ result' = Ok(PyNone)
         ELSE /\ locals' = [locals EXCEPT !.pc = "page", !.selected = selected]
              /\ result' = result
  /\ UNCHANGED <<raw, counter_in, dates_in, families_in, remote, op, args>>

\* while idx < len(selected): a page is begun, y is at its top and no post
\* is on it
WorklogPage ==
  /\ op = "create_worklog_pages"
  /\ locals.pc = "page"
  /\ locals.idx < Len(locals.selected)
  /\ locals' = [locals EXCEPT !.pc = "items", !.drawn = <<>>,
                  !.y = PageTop(locals.include_index, locals.page_no)]
  /\ UNCHANGED <<raw, counter_in, dates_in, families_in, remote, op, args, result>>

\* One pass of the inner loop: the post selected[idx] is drawn on the page;
\* p["create_at"] of a post without it is a KeyError
WorklogItem ==
  /\ op = "create_worklog_pages"
  /\ locals.pc = "items"
  /\ locals.idx < Len(locals.selected)
  /\ PageHasRoom(Len(locals.drawn), locals.max_items_per_page, locals.y)
  /\ LET post == locals.selected[locals.idx + 1] IN
     IF ~HasKey(post, "create_at")
       THEN /\ locals' = [locals EXCEPT !.pc = "returned"]
            /\ result' = Raise("KeyError")
       ELSE \E ts \in {PyIntOf(DictAt(post, "create_at"))} :
              IF ts.raised
                THEN /\ locals' = [locals EXCEPT !.pc = "returned"]
                     /\ result' = ts
                ELSE /\ locals' = [locals EXCEPT !.idx = @ + 1,
                                     !.y = DrawPost(post, locals.y),
                                     !.drawn = Append(@, [id |-> DictAt(post, "id"),
                                                          ts |-> ts.value])]
                     /\ result' = result
  /\ UNCHANGED <<raw, counter_in, dates_in, families_in, remote, op, args>>

\* The inner loop has ended: the page is saved and page_no counted up
WorklogSave ==
  /\ op = "create_worklog_pages"
  /\ locals.pc = "items"
  /\ ~(/\ locals.idx < Len(locals.selected)
       /\ PageHasRoom(Len(locals.drawn), locals.max_items_per_page, locals.y))
  /\ locals' = [locals EXCEPT !.pc = "page", !.page_no = @ + 1,
                  !.pdf = Append(@, [page |-> "worklog", drawn |-> locals.drawn])]
  /\ UNCHANGED <<raw, counter_in, dates_in, families_in, remote, op, args, result>>

\* idx < len(selected) fails: the function returns
WorklogEnd ==
  /\ op = "create_worklog_pages"
  /\ locals.pc = "page"
  /\ ~(locals.idx < Len(locals.selected))
  /\ locals' = [locals EXCEPT !.pc = "returned"]
  /\ result' = Ok(PyNone)
  /\ UNCHANGED <<raw, counter_in, dates_in, families_in, remote, op, args>>

NextWorklog ==
  \/ WorklogSelect
  \/ WorklogPage
  \/ WorklogItem
  \/ WorklogSave
  \/ WorklogEnd

\* The loops go on while the program runs
SpecWorklog == InitWorklog /\ [][NextWorklog]_vars /\ WF_vars(NextWorklog)

\* The settings a Mattermost configuration is complete with
MmKeys == {"url", "token", "activity_channels", "a", "b", "worklog_channel"}

ChannelWithId == PyDict(<<KV("id", PyStr(<<"c">>))>>)

\* config.get("mattermost") holding the settings named in present
MmConfig(present) ==
  LET channels == SelectSeq(<<KV("a", ChannelWithId), KV("b", ChannelWithId)>>,
                            LAMBDA kv : kv.k \in present)
  IN PyDict(SelectSeq(<<KV("url", PyStr(<<"u">>)), KV("token", PyStr(<<"t">>)),
                        KV("activity_channels", PyDict(channels)),
                        KV("worklog_channel", ChannelWithId)>>,
                      LAMBDA kv : kv.k \in present))

\* No mattermost section, an empty one, or one with some of the settings
MmConfigs == {PyNone} \cup {MmConfig(present) : present \in SUBSET MmKeys}

\* main has read the configuration; the pdf holds no page
InitMainPages ==
  /\ raw = PyNone
  /\ counter_in = <<>>
  /\ dates_in = <<>>
  /\ families_in = NoDatesByFamily
  /\ remote = NoRemote
  /\ op = "main"
  /\ args = NoArgs
  /\ \E mm_cfg \in MmConfigs :
       locals = [pc |-> "mattermost_config", mm_cfg |-> mm_cfg, mm_ok |-> FALSE,
                 pdf |-> <<>>, failed |-> <<>>, index_html |-> "none",
                 printed |-> FALSE]
  /\ result = Ok(<<>>)

\* The Mattermost configuration is looked through
MainMattermostConfig ==
  /\ op = "main"
  /\ locals.pc = "mattermost_config"
  /\ locals' = [locals EXCEPT !.pc = "worklog",
                  !.mm_ok = MattermostEnabled(locals.mm_cfg)]
  /\ UNCHANGED <<raw, counter_in, dates_in, families_in, remote, op, args, result>>

\* A step of main that saves the pages `saved` and returns or raises: an
\* exception main does not catch ends main
MainStep(step, next, saved, raises) ==
  /\ op = "main"
  /\ locals.pc = step
  /\ IF raises /\ ~CaughtInMain(step)
       THEN /\ locals' = [locals EXCEPT !.pc = "raised", !.pdf = @ \o saved,
                            !.failed = Append(@, step)]
            /\ result' = Raise("Exception")
       ELSE /\ locals' = [locals EXCEPT !.pc = next, !.pdf = @ \o saved,
                            !.failed = IF raises THEN Append(@, step) ELSE @]
            /\ result' = result
  /\ UNCHANGED <<raw, counter_in, dates_in, families_in, remote, op, args>>

\* A step under `if mm_ok` is passed by
MainSkip(step, next) ==
  /\ op = "main"
  /\ locals.pc = step
  /\ ~locals.mm_ok
  /\ locals' = [locals EXCEPT !.pc = next]
  /\ UNCHANGED <<raw, counter_in, dates_in, families_in, remote, op, args, result>>

\* create_worklog_pages: one page or more when it returns, maybe a page
\* before it raises
MainWorklog ==
  /\ locals.pc = "worklog"
  /\ \/ MainSkip("worklog", "overview")
     \/ /\ locals.mm_ok
        /\ \E raises \in BOOLEAN :
             \E n \in (IF raises THEN 0..1 ELSE 1..2) :
               MainStep("worklog", "overview", [i \in 1..n |-> "worklog"], raises)

\* A step that saves one page, and raises before or after saving it
MainPage(step, next) ==
  \/ MainStep(step, next, <<step>>, FALSE)
  \/ \E saved \in {<<>>, <<step>>} : MainStep(step, next, saved, TRUE)

\* create_overview_page
MainCreateOverviewPage ==
  /\ locals.pc = "overview"
  /\ MainPage("overview", "campaigns")

\* create_campaigns_page_m365_and_urls
MainCampaignsPage ==
  /\ locals.pc = "campaigns"
  /\ MainPage("campaigns", "clearfake")

\* create_clearfake_page
MainClearfakePage ==
  /\ locals.pc = "clearfake"
  /\ MainPage("clearfake", "activity")

\* create_mattermost_activity_last_page
MainActivity ==
  /\ locals.pc = "activity"
  /\ \/ MainSkip("activity", "index_html")
     \/ locals.mm_ok /\ MainPage("activity", "index_html")

\* generate_index_html, under try/except
MainIndexHtml ==
  /\ op = "main"
  /\ locals.pc = "index_html"
  /\ \E raises \in BOOLEAN :
       locals' = [locals EXCEPT !.pc = "print",
                    !.index_html = IF raises THEN "failed" ELSE "written",
                    !.failed = IF raises THEN Append(@, "index_html") ELSE @]
  /\ UNCHANGED <<raw, counter_in, dates_in, families_in, remote, op, args, result>>

\* print("Dashboard created: ..."), and main returns
MainPrint ==
  /\ op = "main"
  /\ locals.pc = "print"
  /\ locals' = [locals EXCEPT !.pc = "returned", !.printed = TRUE]
  /\ result' = Ok(PyNone)
  /\ UNCHANGED <<raw, counter_in, dates_in, families_in, remote, op, args>>

NextMainPages ==
  \/ MainMattermostConfig
  \/ MainWorklog
  \/ MainCreateOverviewPage
  \/ MainCampaignsPage
  \/ MainClearfakePage
  \/ MainActivity
  \/ MainIndexHtml
  \/ MainPrint

SpecMainPages == InitMainPages /\ [][NextMainPages]_vars

\* The responses of at most one record
SmallResponses ==
  UNION {EventShapes(list) \cup AttributeShapes(list) :
           list \in {<<>>} \cup {<<r>> : r \in AttributeRecords}} \cup OddResponses

\* A response, a counter or a date list, and every extractor and builder
\* that takes it
InitFrame ==
  /\ \/ raw \in SmallResponses /\ counter_in = <<>> /\ dates_in = <<>>
     \/ raw = PyNone /\ counter_in \in Counters /\ dates_in = <<>>
     \/ raw = PyNone /\ counter_in = <<>> /\ dates_in \in DateLists
  /\ families_in = NoDatesByFamily
  /\ remote = NoRemote
  /\ locals = NoLocals
  /\ op = "fetched"
  /\ args = NoArgs
  /\ result = Ok(<<>>)

NextFrame ==
  \/ Return
  \/ CallExtractEventsByDay
  \/ CallExtractAttributesByDay
  \/ CallExtractObjectDates
  \/ CallExtractEventDatesWithPrefix
  \/ CallExtractDomainAttributesByDay
  \/ CallExtractUrlAttributeDatesFromEvent
  \/ CallExtractTaggedEventDatesByFamily
  \/ CallBuildTimeSeries
  \/ CallBuildWeeklyTimeSeries

SpecFrame == InitFrame /\ [][NextFrame]_vars

-----------------------------------------------------------------------------
(* What the properties speak of: the records an extractor resolves a date   *)
(* for, the day a record's fields denote, and how often a day was collected.*)

\* record unwrapped from under its own entity key, if it is wrapped
Unwrapped(x, key) == IF IsDict(x) /\ HasKey(x, key) THEN DictAt(x, key) ELSE x

\* The elements of collection `key` of a mapping, where it is a list
Nested(x, key) ==
  IF IsDict(x) /\ HasKey(x, key) /\ IsList(DictAt(x, key)) THEN DictAt(x, key).items ELSE <<>>

\* The payload of the response: data["response"] where present, else data
Payload(data) == IF HasKey(data, "response") THEN DictAt(data, "response") ELSE data

\* The records under `key` of the response at hand, each unwrapped
TopRecords(key) ==
  LET r == IF IsDict(raw) THEN Payload(raw) ELSE raw
      list == IF IsDict(r) /\ HasKey(r, key) THEN DictAt(r, key) ELSE r
  IN IF IsList(list) THEN [i \in 1..Len(list.items) |-> Unwrapped(list.items[i], key)]
     ELSE <<>>

\* The response at hand holds a list of records where the extractors look
HoldsRecordList(key) ==
  /\ IsDict(raw)
  /\ LET r == Payload(raw) IN
       \/ IsList(r)
       \/ IsDict(r) /\ HasKey(r, key) /\ IsList(DictAt(r, key))

RECURSIVE Flatten(_)
Flatten(seqs) == IF seqs = <<>> THEN <<>> ELSE Head(seqs) \o Flatten(Tail(seqs))

Keep(seq, Test(_)) == SelectSeq(seq, Test)

\* info of the event starts with the prefix, case-insensitively
InfoHasPrefix(event, prefix) ==
  LET info == IF IsDict(event) THEN DictGet(event, "info", PyNone) ELSE PyNone
      text == IF IsStr(info) THEN info.chars ELSE <<>>
  IN StartsWith(Lower(text), Lower(prefix.chars))

\* some tag name of the event contains a family keyword, case-insensitively
TagNames(event) ==
  LET tags == Nested(event, "Tag") IN
  {LET name == IF IsDict(Unwrapped(tags[i], "Tag"))
                 THEN DictGet(Unwrapped(tags[i], "Tag"), "name", PyNone) ELSE PyNone
   IN IF IsStr(name) THEN Lower(name.chars) ELSE <<>> : i \in 1..Len(tags)}

HasFamilyTag(event) ==
  \E name \in TagNames(event), family \in Range(STEALER_FAMILY_KEYWORDS) :
    Contains(name, Lower(family))

HasType(attr, types) ==
  /\ IsDict(attr)
  /\ IsStr(DictGet(attr, "type", PyNone))
  /\ DictGet(attr, "type", PyNone).chars \in types

\* The records the last call resolves a date for: the events (or attributes)
\* that pass its filter, or their nested objects (attributes)
Candidates ==
  LET events == TopRecords("Event")
      Gated(e) == args.eventinfo_prefix = PyNone \/ InfoHasPrefix(e, args.eventinfo_prefix)
      IsDomain(a) == HasType(a, DOMAIN_TYPES)
      IsUrl(a) == HasType(a, {<<"u", "r", "l">>})
  IN CASE op = "extract_events_by_day" -> events
       [] op = "extract_event_dates_with_prefix" -> Keep(events, Gated)
       [] op = "extract_tagged_event_dates_by_family" -> Keep(events, HasFamilyTag)
       [] op = "extract_object_dates" ->
            LET gated == Keep(events, Gated) IN
            Flatten([i \in 1..Len(gated) |->
              [j \in 1..Len(Nested(gated[i], "Object")) |->
                 Unwrapped(Nested(gated[i], "Object")[j], "Object")]])
       [] op = "extract_attributes_by_day" -> TopRecords("Attribute")
       [] op = "extract_domain_attributes_by_day" -> Keep(TopRecords("Attribute"), IsDomain)
       [] op = "extract_url_attribute_dates_from_event" ->
            Keep(Flatten([i \in 1..Len(events) |->
                   [j \in 1..Len(Nested(events[i], "Attribute")) |->
                      Unwrapped(Nested(events[i], "Attribute")[j], "Attribute")]]), IsUrl)
       [] OTHER -> <<>>

\* What the "date" and "timestamp" fields of a record say: whether "date"
\* is a string in the form YYYY-MM-DD naming a calendar day (parseable);
\* whether it is absent, None, empty or a string that does not parse
\* (unusable), and then whether it is a non-empty string (unparseable);
\* whether "timestamp" is an integer or the text of one (tsValid); the day
\* "date" names and the UTC day of the epoch second, timestamp div 86400
\* from 1970-01-01; and the day the Date Resolver of the specification
\* gives: the parseable "date", otherwise the "timestamp" (resolved is the
\* set of that day, empty for none).
Facts(r) ==
  LET date == IF IsDict(r) THEN DictGet(r, "date", PyNone) ELSE PyInt(1)
      parsed == Strptime(date)
      ts == IF IsDict(r) THEN PyIntOf(DictGet(r, "timestamp", PyNone)) ELSE Raise("TypeError")
      parseable == IsStr(date) /\ ~parsed.raised
      unusable == date = PyNone \/ (IsStr(date) /\ parsed.raised)
      tsDay == IF ts.raised THEN 0 ELSE ts.value \div 86400
  IN [parseable |-> parseable,
      unusable |-> unusable,
      unparseable |-> unusable /\ Truthy(date),
      tsValid |-> ~ts.raised,
      dateDay |-> IF parseable THEN parsed.value ELSE 0,
      tsDay |-> tsDay,
      resolved |-> IF parseable THEN {parsed.value}
                   ELSE IF unusable /\ ~ts.raised THEN {tsDay} ELSE {}]

\* The facts of the records the last call resolves a date for
CandidateFacts == [i \in 1..Len(Candidates) |-> Facts(Candidates[i])]

\* How many times the last call collected day d
Collected(d) ==
  LET Occurrences(seq) == Cardinality({i \in 1..Len(seq) : seq[i] = d}) IN
  CASE op \in {"extract_events_by_day", "extract_attributes_by_day",
               "extract_domain_attributes_by_day"} ->
         (IF d \in DOMAIN result.value THEN result.value[d] ELSE 0)
    [] op = "extract_tagged_event_dates_by_family" ->
         Occurrences(result.value.aggregated_dates)
    [] OTHER -> Occurrences(result.value)

\* How many of the facts satisfy Test
HowMany(facts, Test(_)) == Cardinality({i \in 1..Len(facts) : Test(facts[i])})

RangeDays == args.start_date..args.end_date

Returned == op \in ExtractorOps /\ ~result.raised

-----------------------------------------------------------------------------
(* Claims *)

\* C1: the response normalizer never raises; for an empty mapping, a bare
\* empty list, an integer and None, and for both entity kinds, it returns an
\* empty record sequence.
C1_NormalizerNeverRaises ==
  op = "_extract_items_from_response" =>
    /\ ~result.raised
    /\ raw \in {PyDict(<<>>), PyList(<<>>), PyInt(3), PyNone} => result.value = PyList(<<>>)

\* The reference rule of C2 for a mapping data
ReferenceItems(endpoint, data) ==
  LET r == IF HasKey(data, "response") THEN DictAt(data, "response") ELSE data
      key == IF endpoint = "events" THEN "Event" ELSE "Attribute"
  IN CASE IsDict(r) /\ HasKey(r, key) -> DictAt(r, key)
       [] IsDict(r) /\ ~HasKey(r, key) -> PyList([i \in 1..Len(r.pairs) |-> r.pairs[i].v])
       [] IsList(r) -> r
       [] OTHER -> PyList(<<>>)

\* C2: for every raw response that is a mapping the normalizer returns what
\* the reference rule gives: the collection under the kind's own key of the
\* unwrapped payload, else the payload's values, else the payload if it is a
\* list, else nothing.
C2_NormalizerMatchesReference ==
  (op = "_extract_items_from_response" /\ IsDict(raw)) =>
    result = Ok(ReferenceItems(args.endpoint, raw))

\* C2's case: a payload that holds only the other kind's key falls to the
\* values fallback.
C2_Witness ==
  /\ op = "_extract_items_from_response"
  /\ args.endpoint = "attributes"
  /\ IsDict(raw) /\ HasKey(raw, "response")
  /\ IsDict(Payload(raw)) /\ HasKey(Payload(raw), "Event") /\ ~HasKey(Payload(raw), "Attribute")
  /\ Len(DictAt(Payload(raw), "Event").items) = MaxLen
  /\ result = Ok(PyList(<<DictAt(Payload(raw), "Event")>>))

\* C3: extract_events_by_day counts an event whose "date" is present but not
\* parseable and whose "timestamp" is a valid integer under the UTC day of
\* the timestamp, when that day is within the range.
C3_EventsByDayFallsThrough ==
  (op = "extract_events_by_day" /\ ~result.raised) =>
    LET facts == CandidateFacts IN
    \A d \in RangeDays :
      LET Case(f) == f.unparseable /\ f.tsValid /\ f.tsDay = d
      IN Collected(d) >= HowMany(facts, Case)

FallThroughOps ==
  {"extract_object_dates", "extract_event_dates_with_prefix",
   "extract_tagged_event_dates_by_family"}

\* C4: extract_object_dates, extract_event_dates_with_prefix and
\* extract_tagged_event_dates_by_family collect a record whose "date" is
\* absent, empty or unparseable and whose "timestamp" is a valid integer
\* under the UTC day of the timestamp, when that day is within the range.
C4_TimestampFallback ==
  (op \in FallThroughOps /\ ~result.raised) =>
    LET facts == CandidateFacts IN
    \A d \in RangeDays :
      LET Case(f) == f.unusable /\ f.tsValid /\ f.tsDay = d
      IN Collected(d) >= HowMany(facts, Case)

\* C4's case: a record with an unparseable date string and a valid timestamp
\* of a day within the range was collected under that day.
C4_Witness ==
  /\ op \in FallThroughOps /\ ~result.raised
  /\ \E d \in RangeDays :
       LET Case(f) == f.unparseable /\ f.tsValid /\ f.tsDay = d
       IN HowMany(CandidateFacts, Case) >= 1 /\ Collected(d) = HowMany(CandidateFacts, Case)

DateFirstOps == FallThroughOps \cup {"extract_events_by_day"}

\* C5: every extractor that resolves an event's or object's date buckets a
\* record whose "date" parses under exactly that date, whatever its
\* "timestamp": each such record within the range is collected under its
\* date, and where every record has such a date nothing else is collected.
C5_ParseableDateWins ==
  (op \in DateFirstOps /\ ~result.raised) =>
    LET facts == CandidateFacts IN
    /\ \A d \in RangeDays :
         LET Case(f) == f.parseable /\ f.dateDay = d
         IN Collected(d) >= HowMany(facts, Case)
    /\ (\A i \in 1..Len(facts) : facts[i].parseable) =>
         \A d \in 0..(MaxDay + 1) :
           LET Case(f) == f.dateDay = d
           IN Collected(d) = IF d \in RangeDays THEN HowMany(facts, Case) ELSE 0

\* C5's case: a record with a parseable date and a valid timestamp of another
\* day within the range was collected under its date, not under the
\* timestamp's day.
C5_Witness ==
  /\ op \in DateFirstOps /\ ~result.raised
  /\ Len(Candidates) = 1
  /\ LET f == CandidateFacts[1] IN
       /\ f.parseable /\ f.tsValid /\ f.dateDay # f.tsDay
       /\ {f.dateDay, f.tsDay} \subseteq RangeDays
       /\ Collected(f.dateDay) = 1
       /\ Collected(f.tsDay) = 0

AttributeOps ==
  {"extract_attributes_by_day", "extract_domain_attributes_by_day",
   "extract_url_attribute_dates_from_event"}

\* C6 as claimed: the attribute extractors bucket a record under the day the
\* two-step Date Resolver gives for its "date" and "timestamp".
C6_AttributesUseDateResolver ==
  (op \in AttributeOps /\ ~result.raised) =>
    LET facts == CandidateFacts IN
    \A d \in RangeDays :
      LET Case(f) == d \in f.resolved
      IN Collected(d) = HowMany(facts, Case)

\* C6 as amended: the attribute extractors bucket a record under the UTC day
\* of its "timestamp" alone, whatever its "date" holds, and drop a record
\* without a valid timestamp; this is the Date Resolver's day where "date" is
\* absent, empty or unparseable.
C6_AttributesUseTimestampOnly ==
  (op \in AttributeOps /\ ~result.raised) =>
    LET facts == CandidateFacts IN
    \A d \in 0..(MaxDay + 1) :
      LET Case(f) == f.tsValid /\ f.tsDay = d
          Agree(f) == f.unusable /\ d \in f.resolved
      IN /\ Collected(d) = IF d \in RangeDays THEN HowMany(facts, Case) ELSE 0
         /\ d \in RangeDays => Collected(d) >= HowMany(facts, Agree)

\* C6's case: an attribute with a parseable date and a valid timestamp of
\* another day was bucketed under the timestamp's day.
C6_Witness ==
  /\ op \in AttributeOps /\ ~result.raised
  /\ Len(Candidates) = 1
  /\ LET f == CandidateFacts[1] IN
       /\ f.parseable /\ f.tsValid /\ f.dateDay # f.tsDay
       /\ {f.dateDay, f.tsDay} \subseteq RangeDays
       /\ Collected(f.tsDay) = 1
       /\ Collected(f.dateDay) = 0

\* Every record of the response at hand is well typed
WellTyped ==
  /\ HoldsRecordList("Event") \/ HoldsRecordList("Attribute")
  /\ \A key \in {"Event", "Attribute"} :
       LET r == Payload(raw)
           list == IF IsDict(r) /\ HasKey(r, key) THEN DictAt(r, key) ELSE r
       IN IsList(list) => Range(list.items) \subseteq WellTypedRecords

\* C7: where some records have an unparseable date string, a non-integer
\* timestamp or neither field, every extractor completes without an error
\* and excludes exactly the records that have no usable date: each day of
\* the range is collected once for every record the Date Resolver gives
\* that day.
C7_DropsOnlyUnusableRecords ==
  (op \in DateFirstOps /\ WellTyped) =>
    /\ ~result.raised
    /\ LET facts == CandidateFacts IN
       \A d \in RangeDays :
         LET Case(f) == d \in f.resolved
         IN Collected(d) = HowMany(facts, Case)

\* C8: no extractor raises because of a malformed individual record: for any
\* record list, elements that are no mappings and fields of an unexpected
\* type included, the extractor returns a result.
C8_MalformedRecordNeverRaises ==
  (op \in ExtractorOps /\ (HoldsRecordList("Event") \/ HoldsRecordList("Attribute"))) =>
    ~result.raised

\* The empty result of the extractor last called
EmptyResult ==
  IF op = "extract_tagged_event_dates_by_family"
    THEN [dates_by_family |-> [family \in Range(STEALER_FAMILY_KEYWORDS) |-> <<>>],
          aggregated_dates |-> <<>>]
    ELSE <<>>

\* C9: for a response of an unexpected top-level shape every extractor
\* returns without failing: the result computed from the list for a bare
\* list of records, an empty result for an integer, None, or a mapping whose
\* payload is neither a recognized mapping nor a list.
C9_UnexpectedShapeNeverFails ==
  (op \in ExtractorOps /\ ~(HoldsRecordList("Event") \/ HoldsRecordList("Attribute"))) =>
    /\ ~result.raised
    /\ IF IsList(raw)
         THEN result = ExtractorResult(op, PyDict(<<KV("response", raw)>>), args)
         ELSE result.value = EmptyResult

\* C10: for a range with start <= end build_time_series returns dates and
\* counts of length (end - start).days + 1, the dates are start, start + 1,
\* ..., end, and counts[i] = counter.get(dates[i], 0); keys outside the range
\* are ignored.
C10_DailySeriesDense ==
  (op = "build_time_series" /\ args.start_date <= args.end_date) =>
    LET dates == result.value.dates
        counts == result.value.counts
        n == args.end_date - args.start_date + 1
    IN /\ ~result.raised
       /\ Len(dates) = n /\ Len(counts) = n
       /\ \A i \in 1..n :
            /\ dates[i] = args.start_date + (i - 1)
            /\ counts[i] = IF dates[i] \in DOMAIN counter_in THEN counter_in[dates[i]] ELSE 0

\* C10's case: a range of several days, a counter with a day inside the
\* range counted more than once and a day outside the range.
C10_Witness ==
  /\ op = "build_time_series"
  /\ args.start_date < args.end_date
  /\ \E d \in DOMAIN counter_in : d \notin RangeDays
  /\ \E i \in 1..Len(result.value.counts) : result.value.counts[i] >= 2
  /\ \E i \in 1..Len(result.value.counts) : result.value.counts[i] = 0
  /\ result.value.dates[Len(result.value.dates)] = args.end_date

\* How many dates of the list lie in [start_date, end_date] and in the bin
\* of index idx, (d - start_date).days // 7 = idx
InBin(dates_list, start_date, end_date, idx) ==
  Cardinality({k \in 1..Len(dates_list) :
                 /\ start_date <= dates_list[k] /\ dates_list[k] <= end_date
                 /\ (dates_list[k] - start_date) \div 7 = idx})

\* C11: for weeks = w >= 1 build_weekly_time_series returns the w week starts
\* start + 7i with start = end - (7w - 1) days and w counts, the count of
\* bin i being the number of dates d with start <= d <= end and
\* (d - start).days // 7 = i, so that a date outside the range is in no bin;
\* for w <= 0 it returns two empty sequences.
C11_WeeklyBins ==
  (op = "build_weekly_time_series") =>
    LET w == args.weeks
        start == args.end_date - (7 * w - 1)
        week_starts == result.value.week_starts
        counts == result.value.counts
    IN /\ ~result.raised
       /\ IF w <= 0 THEN week_starts = <<>> /\ counts = <<>>
          ELSE /\ Len(week_starts) = w /\ Len(counts) = w
               /\ \A i \in 1..w :
                    /\ week_starts[i] = start + 7 * (i - 1)
                    /\ counts[i] = InBin(dates_in, start, args.end_date, i - 1)

\* C11's case: two weeks, a date in the second week and a date outside the
\* window; only the second bin is incremented.
C11_Witness ==
  /\ op = "build_weekly_time_series"
  /\ args.weeks = 2
  /\ \E k \in 1..Len(dates_in) : dates_in[k] > args.end_date
  /\ \E k \in 1..Len(dates_in) : dates_in[k] = args.end_date - 6
  /\ result.value.counts = <<0, 1>>

\* ceil(n / 7) for n >= 0
CeilWeeks(n) == CHOOSE k \in 0..n : 7 * k >= n /\ 7 * (k - 1) < n

\* C12: build_family_weekly_time_series uses ceil(((end - start).days + 1) / 7)
\* bins with week starts start + 7i, bins every family's dates on their own
\* by (d - start).days // 7, and returns a series for a family exactly if
\* the family has a date within [start, end]; a returned series is as long
\* as the week starts and has a non-zero value.
C12_FamilyWeeklyBins ==
  (op = "build_family_weekly_time_series") =>
    LET start == args.start_date
        end == args.end_date
        weeks == CeilWeeks(end - start + 1)
        week_starts == result.value.week_starts
        series == result.value.series
    IN /\ ~result.raised
       /\ week_starts = [i \in 1..weeks |-> start + 7 * (i - 1)]
       /\ DOMAIN series =
            {family \in DOMAIN families_in :
               \E k \in 1..Len(families_in[family]) :
                 start <= families_in[family][k] /\ families_in[family][k] <= end}
       /\ \A family \in DOMAIN series :
            /\ Len(series[family]) = Len(week_starts)
            /\ \A i \in 1..weeks :
                 series[family][i] = InBin(families_in[family], start, end, i - 1)
            /\ \E i \in 1..weeks : series[family][i] # 0

\* C12's case: a range of a week and a day, a family with a date in the
\* second bin, and a family whose only date is outside the range and which
\* is left out.
C12_Witness ==
  /\ op = "build_family_weekly_time_series"
  /\ args.end_date - args.start_date = 7
  /\ DOMAIN result.value.series = {STEALER_FAMILY_KEYWORDS[1]}
  /\ result.value.series[STEALER_FAMILY_KEYWORDS[1]] = <<0, 1>>
  /\ families_in[STEALER_FAMILY_KEYWORDS[4]] # <<>>

\* C13: both weekly builders return bins of whole weeks ending at end_date:
\* consecutive week starts are 7 days apart and the last week start + 6
\* days is end_date, also where the range is no multiple of 7 days long.
C13_BinsEndAtEndDate ==
  (op \in {"build_weekly_time_series", "build_family_weekly_time_series"}
     /\ result.value.week_starts # <<>>) =>
    LET week_starts == result.value.week_starts
    IN /\ \A i \in 1..(Len(week_starts) - 1) : week_starts[i + 1] = week_starts[i] + 7
       /\ week_starts[Len(week_starts)] + 6 = args.end_date

\* The families a keyword of which is in a tag name of the event,
\* case-insensitively
FamiliesOf(event) ==
  LET names == TagNames(event)
  IN {family \in Range(STEALER_FAMILY_KEYWORDS) :
        \E name \in names : Contains(name, Lower(family))}

\* How many times d is in the list
Occurrences(seq, d) == Cardinality({i \in 1..Len(seq) : seq[i] = d})

\* C14: extract_tagged_event_dates_by_family appends the date of an in-range
\* event whose tags match k >= 1 families exactly once to the list of each
\* of the k families and exactly once to the aggregated list, however many
\* of its tags match a family; an event matching no family adds nothing.
C14_TaggedOncePerFamily ==
  (op = "extract_tagged_event_dates_by_family" /\ ~result.raised) =>
    LET events == TopRecords("Event")
        \* per event: its families and its resolved date where in range
        matched == [i \in 1..Len(events) |->
                      [families |-> FamiliesOf(events[i]),
                       days |-> Facts(events[i]).resolved \cap RangeDays]]
        tagged == {i \in 1..Len(events) : matched[i].families # {}}
    IN /\ \A d \in 0..(MaxDay + 1) :
            Occurrences(result.value.aggregated_dates, d) =
              Cardinality({i \in tagged : d \in matched[i].days})
       /\ \A family \in Range(STEALER_FAMILY_KEYWORDS) :
            LET of_family == {i \in tagged : family \in matched[i].families}
                listed == result.value.dates_by_family[family]
            IN \A d \in 0..(MaxDay + 1) :
                 Occurrences(listed, d) =
                   Cardinality({i \in of_family : d \in matched[i].days})

\* C14's case: an in-range event with two tags of one family, one of them
\* naming a second family as well, and an in-range event without a family
\* tag; the date of the first is once in each of the two families' lists
\* and once in the aggregated list.
C14_Witness ==
  /\ op = "extract_tagged_event_dates_by_family" /\ ~result.raised
  /\ LET events == TopRecords("Event") IN
       /\ Len(events) = 2
       /\ Cardinality(FamiliesOf(events[1])) = 2
       /\ Cardinality(TagNames(events[1])) = 2
       /\ \A name \in TagNames(events[1]) : Contains(name, Lower(STEALER_FAMILY_KEYWORDS[1]))
       /\ FamiliesOf(events[2]) = {}
       /\ Facts(events[1]).resolved \subseteq RangeDays
       /\ Facts(events[2]).resolved # {} /\ Facts(events[2]).resolved \subseteq RangeDays
       /\ Len(result.value.aggregated_dates) = 1
       /\ \A family \in FamiliesOf(events[1]) :
            result.value.dates_by_family[family] = result.value.aggregated_dates

\* The response at hand has the form {"response": {"Event": [...]}}
EventsUnderResponse ==
  /\ IsDict(raw) /\ HasKey(raw, "response")
  /\ IsDict(DictAt(raw, "response")) /\ HasKey(DictAt(raw, "response"), "Event")
  /\ IsList(DictAt(DictAt(raw, "response"), "Event"))

\* C15: for a response of the form {"response": {"Event": [...]}}, elements
\* wrapped under "Event" or not, and a range start <= end, the daily series
\* built from extract_events_by_day has at each day of the range the number
\* of events whose resolved date is that day, and its sum is the number of
\* events whose resolved date lies in the range.
C15_EventsEndToEnd ==
  (op = "events_daily_series" /\ EventsUnderResponse /\ WellTyped) =>
    /\ ~result.raised
    /\ LET events == TopRecords("Event")
           facts == [k \in 1..Len(events) |-> Facts(events[k])]
           dates == result.value.dates
           counts == result.value.event_counts
           n == args.end_date - args.start_date + 1
       IN /\ Len(dates) = n /\ Len(counts) = n
          /\ \A i \in 1..n :
               /\ dates[i] = args.start_date + (i - 1)
               /\ counts[i] = Cardinality({k \in 1..Len(events) : dates[i] \in facts[k].resolved})
          /\ result.value.total_events_last_period =
               Cardinality({k \in 1..Len(events) : facts[k].resolved \cap RangeDays # {}})

\* C16: for a counter and a range start <= end, build_time_series on the
\* mapping dates[i] -> counts[i] of its own output, over the same range,
\* returns the same dates and counts.
C16_DailyRoundTrip ==
  (op = "build_time_series_again" /\ args.start_date <= args.end_date) =>
    /\ ~result.raised
    /\ result.value.dates = result.value.fed.dates
    /\ result.value.counts = result.value.fed.counts

\* C16's case: the counter differs from the mapping fed back: it has a day
\* outside the range and lacks a day of the range, and a day is counted twice.
C16_Witness ==
  /\ op = "build_time_series_again"
  /\ args.start_date < args.end_date
  /\ \E d \in DOMAIN counter_in : d \notin RangeDays
  /\ \E d \in RangeDays : d \notin DOMAIN counter_in
  /\ \E i \in 1..Len(result.value.counts) : result.value.counts[i] >= 2

\* C17: create_overview_page fails with an error exactly when the date axis
\* it is given is empty; a non-empty axis whose counts are all zero is
\* rendered without an error.
C17_OverviewFailsOnEmptyAxisOnly ==
  (op = "create_overview_page") =>
    LET axis == BuildTimeSeries(counter_in, args.start_date, args.end_date).dates
    IN /\ result.raised <=> axis = <<>>
       /\ result.raised => result.exc = "ValueError"
       /\ ~result.raised => result.value.period = <<axis[1], axis[Len(axis)]>>

\* C17's case: an axis of several days and no count on any of them; the page
\* is rendered.
C17_Witness ==
  /\ op = "create_overview_page"
  /\ args.start_date < args.end_date
  /\ DOMAIN counter_in \cap RangeDays = {}
  /\ ~result.raised
  /\ \A i \in 1..Len(result.value.events) : result.value.events[i][2] = 0

\* The objects nested in an event, each unwrapped
ObjectsOf(event) ==
  [j \in 1..Len(Nested(event, "Object")) |-> Unwrapped(Nested(event, "Object")[j], "Object")]

\* The resolved days of the records that lie in the range, in the order of
\* the records
DaysInRange(facts) ==
  Flatten([i \in 1..Len(facts) |->
             IF facts[i].resolved \cap RangeDays # {}
               THEN <<CHOOSE d \in facts[i].resolved : TRUE>> ELSE <<>>])

\* C18: extract_object_dates returns, in order, the own resolved date of
\* every object nested in an event that passes the info prefix (compared
\* case-insensitively, a missing info being empty) where that date is within
\* the range, and nothing else: the date of the parent event plays no part.
C18_ObjectDatesIgnoreParentDate ==
  (op = "extract_object_dates" /\ ~result.raised) =>
    result.value = DaysInRange(CandidateFacts)

\* C18's case: an event dated within the range with an object dated outside
\* it, and an event not dated within the range with an object dated within
\* it; the second object is collected and the first is not.
C18_Witness ==
  /\ op = "extract_object_dates" /\ ~result.raised
  /\ args.eventinfo_prefix = PyNone
  /\ LET events == TopRecords("Event") IN
       /\ Len(events) = 2
       /\ Facts(events[1]).resolved \cap RangeDays # {}
       /\ \E j \in 1..Len(ObjectsOf(events[1])) :
            /\ Facts(ObjectsOf(events[1])[j]).resolved # {}
            /\ Facts(ObjectsOf(events[1])[j]).resolved \cap RangeDays = {}
       /\ Facts(events[2]).resolved \cap RangeDays = {}
       /\ Len(ObjectsOf(events[2])) = 1
       /\ Facts(ObjectsOf(events[2])[1]).resolved \cap RangeDays # {}
       /\ Len(result.value) >= 1
       /\ Len(result.value) < Len(ObjectsOf(events[1])) + Len(ObjectsOf(events[2]))

\* C19: the trailing 30-day totals of main are the number of collected dates
\* d with d >= today - 29 days (for the FakeUpdates domains the sum of the
\* per-day counts of the days >= today - 29 days), and the event totals are
\* the length of the collected date list.
C19_TrailingTotals ==
  /\ (op \in {"mitm_totals", "url_totals"} /\ ~result.raised) =>
       LET dates == result.value.dates IN
       /\ result.value.total_30d =
            Cardinality({i \in 1..Len(dates) : dates[i] >= args.end_date - 29})
       /\ result.value.total_period = Len(dates)
  /\ (op = "fake_domain_totals" /\ ~result.raised) =>
       LET by_day == result.value.by_day
           Since(d) == IF d \in DOMAIN by_day /\ d >= args.end_date - 29 THEN by_day[d] ELSE 0
       IN result.value.total_30d =
            SumList([i \in 1..(args.end_date - args.start_date + 1) |->
                       Since(args.start_date + i - 1)])

\* C19's case: the collected dates hold the first day of the 30-day window
\* and an earlier day of the weeks window; the earlier day is in the period
\* total only.
C19_Witness ==
  /\ op = "mitm_totals" /\ ~result.raised
  /\ \E i \in 1..Len(result.value.dates) : result.value.dates[i] = args.end_date - 29
  /\ \E i \in 1..Len(result.value.dates) : result.value.dates[i] < args.end_date - 29
  /\ result.value.total_30d = 1
  /\ result.value.total_period = 2

\* The extractors and the builders
FrameOps ==
  ExtractorOps \cup {"build_time_series", "build_weekly_time_series",
                     "build_family_weekly_time_series"}

EndpointOf(name) ==
  IF name \in {"extract_attributes_by_day", "extract_domain_attributes_by_day"}
    THEN "attributes" ELSE "events"

KeyOf(name) == IF EndpointOf(name) = "attributes" THEN "Attribute" ELSE "Event"

\* What an extractor iterates for the response json: the collection its head
\* selects, nothing (the empty list) where it returns at once
IteratedBy(name, json) ==
  LET head == ResponseList(json, KeyOf(name)) IN
  IF head.raised THEN Raise(head.exc)
  ELSE IF head.value.found THEN Ok(head.value.list)
  ELSE Ok(PyList(<<>>))

\* C21: every extractor reads the record sequence the normalizer returns for
\* the same raw response and entity kind: what an extract_* function
\* iterates equals _extract_items_from_response(kind, raw), also for a
\* payload mapping without the "Event"/"Attribute" key, where the normalizer
\* gives the mapping's values.
C21_ExtractorsReadNormalizedItems ==
  op \in ExtractorOps =>
    IteratedBy(op, raw) = ExtractItemsFromResponse(EndpointOf(op), raw)

\* How many dates of the list are within start..end
CountWithin(dates_list, start, end) ==
  Cardinality({k \in 1..Len(dates_list) : start <= dates_list[k] /\ dates_list[k] <= end})

\* C22: weekly binning conserves the dates of the window: the counts of
\* build_weekly_time_series sum to the number of input dates d, with
\* multiplicity, with end - (7 * weeks - 1) <= d <= end; for every family
\* build_family_weekly_time_series keeps, its counts sum to the number of the
\* family's dates within start..end (the bin test drops no date of the
\* window); and in main the url_week_counts sum to total_urls_period for
\* weeks >= 1.
C22_WeeklyBinsConserve ==
  /\ op = "build_weekly_time_series" =>
       SumList(result.value.counts) =
         CountWithin(dates_in, args.end_date - (7 * args.weeks - 1), args.end_date)
  /\ op = "build_family_weekly_time_series" =>
       \A family \in DOMAIN result.value.series :
         SumList(result.value.series[family]) =
           CountWithin(families_in[family], args.start_date, args.end_date)
  /\ (op = "url_totals" /\ ~result.raised /\ args.weeks >= 1) =>
       SumList(result.value.week_counts) = result.value.total_period

\* C22's case: the weekly builder was handed a date of the last day of the
\* window and a date outside the window; the counts sum to one.
C22_Witness ==
  /\ op = "build_weekly_time_series"
  /\ args.weeks >= 1
  /\ Len(dates_in) = 2
  /\ \E k \in 1..2 : dates_in[k] = args.end_date
  /\ \E k \in 1..2 : dates_in[k] > args.end_date
  /\ SumList(result.value.counts) = 1
  /\ result.value.counts[args.weeks] = 1

\* C23: in main, for every configured days >= 1 the date axis handed to
\* create_overview_page has exactly `days` entries, today - (days - 1) to
\* today, so the "No dates to plot" error (ValueError) is not raised, also
\* when the queries return no record; it is raised only for days <= 0, and
\* then whenever the extractors return.
C23_OverviewAxisHasDaysEntries ==
  (op = "main_overview") =>
    LET today == args.end_date
        days == args.days
        no_dates == result.raised /\ result.exc = "ValueError"
    IN /\ days >= 1 =>
            /\ ~no_dates
            /\ ~result.raised =>
                 /\ Len(result.value.events) = days
                 /\ \A i \in 1..days :
                      result.value.events[i][1] = today - (days - 1) + (i - 1)
       /\ days <= 0 => result.raised
       /\ (days <= 0 /\ HoldsRecordList("Event") /\ TopRecords("Event") = <<>>) => no_dates

\* C23's case: the events query returned no record, days is 2 or more, and
\* the page is made over an axis of `days` days without a count.
C23_Witness ==
  /\ op = "main_overview"
  /\ HoldsRecordList("Event") /\ TopRecords("Event") = <<>>
  /\ args.days >= 2
  /\ ~result.raised
  /\ Len(result.value.events) = args.days
  /\ \A i \in 1..Len(result.value.events) : result.value.events[i][2] = 0

\* The total is returned
PaginationReturned == op = "get_total_via_pagination" /\ locals.pc = "returned"

\* How many items the page of the i-th request held
ItemsOfRequest(i) == RecordsOnPage(remote, locals.requests[i])

\* C24: get_total_via_pagination requests the pages 1, 2, 3, ... in order
\* with limit 5000, stops after the first page of fewer than 5000 items and
\* returns the sum of the item counts of the pages requested; on a source of
\* N records it ends after N div 5000 + 1 requests and returns N (a last
\* request of 0 items where N is a multiple of 5000); on a source that
\* answers every page with a full page it never returns.
C24_PaginationState ==
  (op = "get_total_via_pagination") =>
    LET requests == locals.requests
        n == Len(requests)
    IN /\ \A i \in 1..n : requests[i].page = i /\ requests[i].limit = 5000
       /\ \A i \in 1..(n - 1) : ItemsOfRequest(i) = 5000
       /\ PaginationReturned =>
            /\ ~result.raised
            /\ ItemsOfRequest(n) < 5000
            /\ result.value = SumList([i \in 1..n |-> ItemsOfRequest(i)])
            /\ ~remote.endless
            /\ n = (remote.records \div 5000) + 1
            /\ result.value = remote.records

C24_PaginationTotals ==
  /\ []C24_PaginationState
  /\ <>(remote.endless \/ PaginationReturned)

\* C24's case: the source holds two full pages; the third request returns
\* no item and the total of 10000 is returned.
C24_Witness ==
  /\ PaginationReturned
  /\ remote.records = 10000
  /\ Len(locals.requests) = 3
  /\ ItemsOfRequest(3) = 0
  /\ result = Ok(10000)

\* The time a post of the channel counts with: a missing "create_at" is 0
CreateAtOf(kind, since_ms) ==
  CASE kind = "new" -> since_ms
    [] kind = "old" -> since_ms - 1
    [] OTHER -> 0

\* The positions of the channel whose post is too old, and the first of them
\* (one past the channel where there is none)
FirstTooOld(channel, since_ms) ==
  LET old == {i \in 1..Len(channel) :
                channel[i] # "absent" /\ CreateAtOf(channel[i], since_ms) < since_ms}
  IN IF old = {} THEN Len(channel) + 1 ELSE CHOOSE i \in old : \A j \in old : i <= j

\* C25: mm_fetch_posts_since issues at most max_pages requests, for the
\* pages 0, 1, 2, ... in order; it stops at the first empty page or at the
\* first post in page order whose create_at is below since_ms (a missing
\* create_at counts as 0); every post returned has create_at >= since_ms,
\* the posts are returned in the order received, and no post after the
\* first too-old post is returned, whatever its create_at.
C25_FetchPostsSince ==
  (op = "mm_fetch_posts_since") =>
    LET channel == remote.channel
        since_ms == locals.since_ms
        per_page == locals.per_page
        requests == locals.requests
        n == Len(requests)
        too_old == FirstTooOld(channel, since_ms)
        \* the positions on the pages the function may ask for
        asked == {i \in 1..Len(channel) : i <= locals.max_pages * per_page}
        kept == {i \in asked : i < too_old /\ channel[i] # "absent"}
        PageOf(i) == (i - 1) \div per_page
    IN /\ n <= locals.max_pages
       /\ \A i \in 1..n : requests[i].page = i - 1
       /\ locals.pc = "returned" =>
            /\ ~result.raised
            /\ \A k \in 1..Len(result.value) :
                 /\ PyIntOf(DictGet(result.value[k], "create_at", PyInt(0))).value >= since_ms
                 /\ DictAt(result.value[k], "id").n \in kept
                 /\ k > 1 => DictAt(result.value[k - 1], "id").n < DictAt(result.value[k], "id").n
            /\ Len(result.value) = Cardinality(kept)
            /\ IF too_old \in asked
                 THEN n = PageOf(too_old) + 1
                 ELSE LET filled == (Len(channel) + per_page - 1) \div per_page
                      IN n = (IF filled + 1 < locals.max_pages
                                THEN filled + 1 ELSE locals.max_pages)

\* C25's case: a post created at since_ms, then a too-old post, then another
\* post created at since_ms on a later page which is not asked for; the
\* first post alone is returned.
C25_Witness ==
  /\ op = "mm_fetch_posts_since" /\ locals.pc = "returned"
  /\ remote.channel = <<"new", "old", "new">>
  /\ locals.per_page = 2 /\ locals.max_pages >= 2
  /\ Len(locals.requests) = 1
  /\ Len(result.value) = 1
  /\ DictAt(result.value[1], "id") = PyInt(1)

\* The ids of the posts of the channel whose message, stripped, is not empty
\* and holds "#reporting" or "#incident"
TaggedIds ==
  {i \in 1..Len(remote.posts) :
     LET msg == Strip(MessageOf(remote.posts[i])) IN
     msg # <<>> /\ (Contains(msg, <<"#", "r", "e", "p", "o", "r", "t", "i", "n", "g">>)
                    \/ Contains(msg, <<"#", "i", "n", "c", "i", "d", "e", "n", "t">>))}

\* C26: with max_items_per_page >= 1, every page create_worklog_pages saves
\* holds at least one and at most max_items_per_page posts; when it has
\* returned every selected post is drawn on exactly one page, in ascending
\* create_at order across the pages, and without a selected post exactly one
\* placeholder page is saved.
C26_WorklogPagesState ==
  (op = "create_worklog_pages") =>
    LET pdf == locals.pdf
        drawn == Flatten([k \in 1..Len(pdf) |-> pdf[k].drawn])
    IN /\ \A k \in 1..Len(pdf) :
            pdf[k].page = "worklog" =>
              Len(pdf[k].drawn) >= 1 /\ Len(pdf[k].drawn) <= locals.max_items_per_page
       /\ locals.pc = "returned" =>
            /\ ~result.raised
            /\ IF TaggedIds = {}
                 THEN Len(pdf) = 1 /\ pdf[1].page = "worklog placeholder"
                 ELSE \A k \in 1..Len(pdf) : pdf[k].page = "worklog"
            /\ Len(drawn) = Cardinality(TaggedIds)
            /\ \A i \in TaggedIds : \E k \in 1..Len(drawn) : drawn[k].id = PyInt(i)
            /\ \A k \in 1..(Len(drawn) - 1) : drawn[k].ts <= drawn[k + 1].ts

\* C26: the page loop terminates.
C26_WorklogPages ==
  /\ []C26_WorklogPagesState
  /\ <>(op = "create_worklog_pages" /\ locals.pc = "returned")

\* C26's case: five selected posts of four lines each and 18 posts allowed
\* on a page; the first page is full at four posts by its height, the fifth
\* post is on a second page.
C26_Witness ==
  /\ op = "create_worklog_pages" /\ locals.pc = "returned"
  /\ locals.max_items_per_page = 18
  /\ Cardinality(TaggedIds) = 5
  /\ Len(locals.pdf) = 2
  /\ Len(locals.pdf[1].drawn) = 4
  /\ Len(locals.pdf[2].drawn) = 1

\* Where a page stands in the report
PageRank(page) ==
  CASE page = "worklog" -> 1
    [] page = "overview" -> 2
    [] page = "campaigns" -> 3
    [] page = "clearfake" -> 4
    [] page = "activity" -> 5

\* C27: the pages of the pdf stand in the order worklog page(s), overview,
\* campaigns, FakeUpdates/stealers, Mattermost activity; a Mattermost step
\* has run only with the complete Mattermost configuration; an exception of
\* a Mattermost step never ends main, and past the FakeUpdates/stealers
\* step the overview, campaigns and FakeUpdates/stealers pages are in the
\* pdf; once create_overview_page has raised main has ended with the
\* exception and no later page, no index.html and no "Dashboard created"
\* message follows.
C27_PageOrderAndIsolation ==
  (op = "main") =>
    LET pdf == locals.pdf
        pages == {pdf[i] : i \in 1..Len(pdf)}
        failed == {locals.failed[i] : i \in 1..Len(locals.failed)}
    IN /\ \A i, j \in 1..Len(pdf) :
            i < j => /\ PageRank(pdf[i]) <= PageRank(pdf[j])
                     /\ pdf[i] = pdf[j] => pdf[i] = "worklog"
       /\ (({"worklog", "activity"} \cap (pages \cup failed)) # {}) =>
            locals.mm_cfg = MmConfig(MmKeys)
       /\ result.raised =>
            locals.failed[Len(locals.failed)] \notin {"worklog", "activity"}
       /\ locals.pc \in {"activity", "index_html", "print", "returned"} =>
            {"overview", "campaigns", "clearfake"} \subseteq pages
       /\ "overview" \in failed =>
            /\ locals.pc = "raised" /\ result.raised
            /\ pages \cap {"campaigns", "clearfake", "activity"} = {}
            /\ locals.index_html = "none"
            /\ ~locals.printed

\* C27's case: the worklog step has raised after saving a page, and main has
\* gone on to save the other four pages and to print its message.
C27_Witness ==
  /\ op = "main" /\ locals.pc = "returned" /\ locals.printed
  /\ locals.failed = <<"worklog">>
  /\ locals.pdf = <<"worklog", "overview", "campaigns", "clearfake", "activity">>

\* The totals main computes over the weeks window
TotalsOps == {"mitm_totals", "fake_domain_totals", "url_totals"}

\* C28: each trailing 30-day total of main is at most the period total it
\* goes with, whatever weeks is; where 7 * weeks <= 30 the two are equal.
C28_TrailingWithinPeriod ==
  (op \in TotalsOps /\ ~result.raised) =>
    /\ result.value.total_30d <= result.value.total_period
    /\ 7 * args.weeks <= 30 => result.value.total_30d = result.value.total_period

\* C28's case: a window of four weeks, which starts after today - 29 days,
\* with URLs of the secondary instance dated in it: both totals are the same
\* count.
C28_Witness ==
  /\ op = "url_totals" /\ ~result.raised
  /\ args.weeks = 4
  /\ result.value.total_period >= 1
  /\ result.value.total_30d = result.value.total_period

====
